---- MODULE Spec2Model ----
(***************************************************************************)
(* Model of the disaster-support chat core of SIH-2025:                    *)
(*   - DisasterPromptEngine  (src/student/chatbot_backend.py)              *)
(*   - VisualDisasterAnalyzer (src/student/visual_disaster_assessment.py)  *)
(*                                                                         *)
(* Python str values are TLA+ strings; `k in s`, str.lower() and           *)
(* str.split() are computed character by character.                        *)
(***************************************************************************)
EXTENDS Integers, Sequences, FiniteSets, TLC

VARIABLES
    prompt_engine,   \* the DisasterPromptEngine instance (its attributes)
    message,         \* analyze_message_type: argument message
    has_files,       \* analyze_message_type: argument has_files
    file_types,      \* analyze_message_type: argument file_types
    message_type,    \* the label returned, NotCalled before the call
    visual_analyzer, \* the VisualDisasterAnalyzer instance (its attributes)
    description,     \* analyze_image_description: argument description
    user_context,    \* analyze_image_description: argument user_context
    assessment,      \* the DisasterAssessment returned, NoAssessment before the call
    calls,           \* concurrent calls: the frame (position, arguments, locals) of each
    prompt_call,     \* one call of create_specialized_prompt: its arguments and result
    chat,            \* one request to /api/chat: its position, locals and response
    api,             \* the DisasterPsychologyAPI instance: conversation_history and its lists
    threads,         \* the requests the API serves at the same time: the frame of each
    last_call        \* the last call of the API served on its own: arguments, result, state before

classifyVars == <<message, has_files, file_types, message_type>>
assessVars == <<description, user_context, assessment>>
historyVars == <<api, threads, last_call>>
vars == <<prompt_engine, visual_analyzer, classifyVars, assessVars, calls, prompt_call, chat, historyVars>>

----------------------------------------------------------------------------
(* Bounds of the model *)

\* longest input text, counted in fragments joined by one space
MaxFragments == 2
\* most attachments in one request
MaxFiles == 2
\* calls of classify, buildPrompt and assess in progress at the same time
MaxCalls == 2
\* requests the psychology API serves at the same time
MaxThreads == 2
\* most entries of one session's history
MaxHistory == 2

----------------------------------------------------------------------------
(* Python str operations *)

UpperLetters == "ABCDEFGHIJKLMNOPQRSTUVWXYZ"
LowerLetters == "abcdefghijklmnopqrstuvwxyz"

\* one character of str.lower()
LowerChar(c) ==
    IF \E i \in 1..26 : SubSeq(UpperLetters, i, i) = c
    THEN LET i == CHOOSE j \in 1..26 : SubSeq(UpperLetters, j, j) = c
         IN  SubSeq(LowerLetters, i, i)
    ELSE c

\* the characters lo..hi of s, lowercased (halving keeps the nesting shallow)
RECURSIVE LowerRange(_, _, _)
LowerRange(s, lo, hi) ==
    IF lo > hi THEN ""
    ELSE IF lo = hi THEN LowerChar(SubSeq(s, lo, lo))
    ELSE LET mid == (lo + hi) \div 2
         IN  LowerRange(s, lo, mid) \o LowerRange(s, mid + 1, hi)

\* s.lower()
Lower(s) == LowerRange(s, 1, Len(s))

\* Python `k in s` for two str values
Contains(k, s) ==
    \E i \in 1..(Len(s) - Len(k) + 1) : SubSeq(s, i, i + Len(k) - 1) = k

\* any(keyword in s for keyword in keywords)
AnyKeywordIn(keywords, s) ==
    \E i \in 1..Len(keywords) : Contains(keywords[i], s)

\* any(category in ft for ft in file_types)
AnyFileType(category, types) ==
    \E i \in 1..Len(types) : Contains(category, types[i])

----------------------------------------------------------------------------
(* DisasterPromptEngine *)

NotCalled == "not_called"

\* self.base_context; a character outside ASCII (the pictographs of the
\* response formats) is written ~ here and in the templates
base_context_text ==
    "You are DisasterAI, a friendly and helpful assistant specializing in disaster management, emergency guidance, and safety support.\n" \o
    "\n" \o
    "COMMUNICATION STYLE:\n" \o
    "- Be natural, warm, and conversational\n" \o
    "- Match the user's tone - casual for greetings, serious for emergencies\n" \o
    "- Keep responses concise unless detailed information is needed\n" \o
    "- Use simple, clear language\n" \o
    "- Be supportive and reassuring\n" \o
    "\n" \o
    "CORE CAPABILITIES:\n" \o
    "- Emergency safety guidance and protocols\n" \o
    "- Disaster preparedness education\n" \o
    "- Psychological support during stressful situations\n" \o
    "- Resource connections and emergency contacts\n" \o
    "- Image/video analysis for damage assessment\n" \o
    "\n" \o
    "RESPONSE APPROACH:\n" \o
    "- For casual greetings: Respond naturally and ask how you can help\n" \o
    "- For emergencies: Provide immediate, actionable safety guidance\n" \o
    "- For questions: Give clear, helpful information\n" \o
    "- Always prioritize user safety and well-being\n"

\* self.specialized_prompts["text_only"]
template_text_only ==
    "\n" \o
    "USER MESSAGE: {user_message}\n" \o
    "\n" \o
    "INSTRUCTIONS:\n" \o
    "- If this is a simple greeting (hello, hi, hey, etc.), respond warmly and briefly, then ask how you can help with disaster preparedness or safety\n" \o
    "- If this is an emergency, provide immediate safety guidance\n" \o
    "- If this is a question about disaster news, updates, or current situations, provide helpful information while clarifying that you cannot access real-time data\n" \o
    "- If this is a general question, provide helpful, clear information\n" \o
    "- Keep the tone conversational and match the user's energy level\n" \o
    "- Be concise unless detailed information is specifically requested\n" \o
    "\n" \o
    "Provide a natural, helpful response.\n"

\* self.specialized_prompts["disaster_information"]
template_disaster_information ==
    "\n" \o
    "CONTEXT: User is asking for information, news, or updates about disaster situations, weather conditions, or emergency events.\n" \o
    "\n" \o
    "IMPORTANT: You do not have access to real-time data, current news, or live updates. Be honest about this limitation.\n" \o
    "\n" \o
    "RESPONSE APPROACH:\n" \o
    "1. ACKNOWLEDGE REQUEST - Recognize their information need\n" \o
    "2. EXPLAIN LIMITATIONS - Clarify you don't have real-time data\n" \o
    "3. PROVIDE GUIDANCE - Suggest reliable sources for current information\n" \o
    "4. OFFER PREPAREDNESS HELP - Provide relevant safety information\n" \o
    "5. EMERGENCY CONTEXT - Include emergency contact info if relevant\n" \o
    "\n" \o
    "RESPONSE FORMAT:\n" \o
    "~~~~ INFORMATION REQUEST: [Acknowledge what they're asking about]\n" \o
    "~~~~~~ REAL-TIME LIMITATION: [Explain you don't have current data]\n" \o
    "~~~~ RELIABLE SOURCES: [Suggest where to get current information]\n" \o
    "~~~~ PREPAREDNESS GUIDANCE: [Relevant safety tips for the situation]\n" \o
    "~~~~ EMERGENCY CONTACTS: [If situation might be relevant]\n" \o
    "\n" \o
    "USER MESSAGE: {user_message}\n" \o
    "\n" \o
    "Provide helpful guidance while being transparent about your limitations regarding real-time information.\n"

\* self.specialized_prompts["image_analysis"]
template_image_analysis ==
    "\n" \o
    "CONTEXT: User has shared an image that may show disaster conditions, damage, or emergency situations.\n" \o
    "\n" \o
    "ANALYSIS TASKS:\n" \o
    "1. SAFETY ASSESSMENT - Identify immediate dangers or hazards visible\n" \o
    "2. SITUATION EVALUATION - Assess severity and urgency level\n" \o
    "3. ACTIONABLE GUIDANCE - Provide specific next steps\n" \o
    "4. PSYCHOLOGICAL SUPPORT - Acknowledge stress and provide reassurance\n" \o
    "5. EMERGENCY PROTOCOLS - Reference relevant emergency procedures\n" \o
    "\n" \o
    "RESPONSE FORMAT:\n" \o
    "~~~~ IMMEDIATE SAFETY: [Key safety points]\n" \o
    "~~~~ SITUATION ASSESSMENT: [What you observe]\n" \o
    "~~~ RECOMMENDED ACTIONS: [Step-by-step guidance]\n" \o
    "~~~~ PSYCHOLOGICAL SUPPORT: [Calming, supportive message]\n" \o
    "~~~~ EMERGENCY CONTACTS: [If situation warrants]\n" \o
    "\n" \o
    "USER MESSAGE (with image): {user_message}\n" \o
    "\n" \o
    "Analyze the image and provide comprehensive disaster management guidance.\n"

\* self.specialized_prompts["video_analysis"]
template_video_analysis ==
    "\n" \o
    "CONTEXT: User has shared a video that may show dynamic disaster conditions, evacuation scenarios, or emergency situations in progress.\n" \o
    "\n" \o
    "ANALYSIS TASKS:\n" \o
    "1. MOTION & DYNAMICS - Assess movement, progression of conditions\n" \o
    "2. SAFETY HAZARDS - Identify immediate and developing dangers\n" \o
    "3. EVACUATION ASSESSMENT - Evaluate escape routes and safety options\n" \o
    "4. EMERGENCY RESPONSE - Determine if immediate emergency services needed\n" \o
    "5. PSYCHOLOGICAL IMPACT - Address potential trauma and stress\n" \o
    "\n" \o
    "RESPONSE FORMAT:\n" \o
    "~~~~ VIDEO ASSESSMENT: [Key observations from video]\n" \o
    "~~~~~~ IMMEDIATE RISKS: [Dangers identified]\n" \o
    "~~~~ EVACUATION GUIDANCE: [Movement and safety instructions]\n" \o
    "~~~~ EMERGENCY RESPONSE: [When to call emergency services]\n" \o
    "~~~~ PSYCHOLOGICAL SUPPORT: [Trauma-informed support]\n" \o
    "\n" \o
    "USER MESSAGE (with video): {user_message}\n" \o
    "\n" \o
    "Analyze the video content and provide dynamic disaster response guidance.\n"

\* self.specialized_prompts["pdf_analysis"]
template_pdf_analysis ==
    "\n" \o
    "CONTEXT: User has shared a PDF document that may contain emergency plans, safety procedures, incident reports, or preparedness materials.\n" \o
    "\n" \o
    "ANALYSIS TASKS:\n" \o
    "1. DOCUMENT TYPE - Identify the nature and purpose of the document\n" \o
    "2. KEY INFORMATION - Extract critical safety and emergency information\n" \o
    "3. PROCEDURE REVIEW - Assess emergency procedures for completeness\n" \o
    "4. RECOMMENDATIONS - Suggest improvements or additional measures\n" \o
    "5. IMPLEMENTATION GUIDANCE - Help user understand and apply information\n" \o
    "\n" \o
    "RESPONSE FORMAT:\n" \o
    "~~~~ DOCUMENT SUMMARY: [Overview of content]\n" \o
    "~~~~ KEY FINDINGS: [Important information identified]\n" \o
    "~~~ PROCEDURE ASSESSMENT: [Evaluation of emergency procedures]\n" \o
    "~~~~ RECOMMENDATIONS: [Suggested improvements]\n" \o
    "~~~~ IMPLEMENTATION STEPS: [How to use this information]\n" \o
    "\n" \o
    "USER MESSAGE (with PDF): {user_message}\n" \o
    "\n" \o
    "Analyze the document and provide expert guidance on disaster management procedures.\n"

\* self.specialized_prompts["psychological_support"]
template_psychological_support ==
    "\n" \o
    "CONTEXT: User is experiencing anxiety, stress, trauma, or psychological distress related to disasters or emergency situations.\n" \o
    "\n" \o
    "SUPPORT APPROACH:\n" \o
    "1. IMMEDIATE GROUNDING - Provide calming techniques\n" \o
    "2. VALIDATION - Acknowledge feelings and normalize responses\n" \o
    "3. BREATHING EXERCISES - Guide through calming techniques\n" \o
    "4. SAFETY ASSURANCE - Help assess current safety\n" \o
    "5. RESOURCE CONNECTION - Suggest professional support if needed\n" \o
    "\n" \o
    "RESPONSE FORMAT:\n" \o
    "~~~~ EMOTIONAL SUPPORT: [Validation and empathy]\n" \o
    "~~~~~~~ IMMEDIATE TECHNIQUES: [Breathing, grounding exercises]\n" \o
    "~~~~~~~ SAFETY CHECK: [Current safety assessment]\n" \o
    "~~~~ RESOURCES: [Professional support options if needed]\n" \o
    "~~~~ COPING STRATEGIES: [Long-term resilience building]\n" \o
    "\n" \o
    "USER MESSAGE: {user_message}\n" \o
    "\n" \o
    "Provide compassionate, trauma-informed psychological support focused on disaster-related stress.\n"

\* self.specialized_prompts["emergency_protocol"]
template_emergency_protocol ==
    "\n" \o
    "CONTEXT: User needs immediate emergency guidance or is in an active emergency situation.\n" \o
    "\n" \o
    "PROTOCOL RESPONSE:\n" \o
    "1. IMMEDIATE SAFETY - Priority actions for safety\n" \o
    "2. EMERGENCY SERVICES - When and how to contact help\n" \o
    "3. EVACUATION PROCEDURES - Clear movement instructions\n" \o
    "4. COMMUNICATION - How to maintain contact and signal for help\n" \o
    "5. SURVIVAL PRIORITIES - Essential needs and resources\n" \o
    "\n" \o
    "RESPONSE FORMAT:\n" \o
    "~~~~ IMMEDIATE ACTIONS: [Critical first steps]\n" \o
    "~~~~ EMERGENCY CONTACTS: [911, local emergency services]\n" \o
    "~~~~ EVACUATION STEPS: [Safe movement procedures]\n" \o
    "~~~~ COMMUNICATION: [How to stay connected/signal]\n" \o
    "~~~~ SURVIVAL NEEDS: [Essential resources and priorities]\n" \o
    "\n" \o
    "EMERGENCY SITUATION: {user_message}\n" \o
    "\n" \o
    "Provide immediate, life-saving emergency response guidance.\n"

\* the attributes set by DisasterPromptEngine.__init__
DisasterPromptEngine_init ==
    [ base_context |-> base_context_text,
      specialized_prompts |->
        [ text_only             |-> template_text_only,
          disaster_information  |-> template_disaster_information,
          image_analysis        |-> template_image_analysis,
          video_analysis        |-> template_video_analysis,
          pdf_analysis          |-> template_pdf_analysis,
          psychological_support |-> template_psychological_support,
          emergency_protocol    |-> template_emergency_protocol ],
      psychological_keywords |->
        << "anxious", "anxiety", "scared", "afraid", "worried", "panic", "stress",
           "overwhelmed", "helpless", "trauma", "ptsd", "depression", "fear" >>,
      emergency_keywords |->
        << "trapped", "help me", "immediate danger", "urgent help", "emergency now",
           "evacuation needed", "injured", "collapse", "stuck", "surrounded",
           "cannot escape", "need rescue", "in danger", "emergency situation" >>,
      information_keywords |->
        << "news", "update", "information", "status", "report", "today",
           "yesterday", "current", "latest", "what happened", "tell me about",
           "is there", "any news", "what is", "how is", "condition",
           "situation in", "about the", "regarding" >>,
      disaster_keywords |->
        << "fire", "flood", "earthquake", "cyclone", "tsunami", "landslide",
           "hurricane", "tornado", "volcano", "drought", "storm" >> ]

\* mutant: the psychological keywords are tested before the attachments
analyze_message_type_psych_first(self, msg, files, types) ==
    LET message_lower == Lower(msg)
        is_information_request == AnyKeywordIn(self.information_keywords, message_lower)
        has_disaster_content == AnyKeywordIn(self.disaster_keywords, message_lower)
        is_emergency == AnyKeywordIn(self.emergency_keywords, message_lower)
        is_psychological == AnyKeywordIn(self.psychological_keywords, message_lower)
        files_given == files /\ Len(types) > 0
    IN  IF is_psychological THEN "psychological_support"
        ELSE IF files_given /\ AnyFileType("image", types) THEN "image_analysis"
        ELSE IF files_given /\ AnyFileType("video", types) THEN "video_analysis"
        ELSE IF files_given /\ AnyFileType("pdf", types) THEN "pdf_analysis"
        ELSE IF is_information_request /\ has_disaster_content THEN "disaster_information"
        ELSE IF is_emergency /\ ~is_information_request THEN "emergency_protocol"
        ELSE "text_only"

\* mutant: an information keyword alone selects disaster_information
analyze_message_type_info_only(self, msg, files, types) ==
    LET message_lower == Lower(msg)
        is_information_request == AnyKeywordIn(self.information_keywords, message_lower)
        has_disaster_content == AnyKeywordIn(self.disaster_keywords, message_lower)
        is_emergency == AnyKeywordIn(self.emergency_keywords, message_lower)
        is_psychological == AnyKeywordIn(self.psychological_keywords, message_lower)
        files_given == files /\ Len(types) > 0
    IN  IF files_given /\ AnyFileType("image", types) THEN "image_analysis"
        ELSE IF files_given /\ AnyFileType("video", types) THEN "video_analysis"
        ELSE IF files_given /\ AnyFileType("pdf", types) THEN "pdf_analysis"
        ELSE IF is_psychological THEN "psychological_support"
        ELSE IF is_information_request THEN "disaster_information"
        ELSE IF is_emergency /\ ~is_information_request THEN "emergency_protocol"
        ELSE "text_only"

\* mutant: the emergency keywords are tested before the psychological ones
analyze_message_type_emergency_first(self, msg, files, types) ==
    LET message_lower == Lower(msg)
        is_information_request == AnyKeywordIn(self.information_keywords, message_lower)
        has_disaster_content == AnyKeywordIn(self.disaster_keywords, message_lower)
        is_emergency == AnyKeywordIn(self.emergency_keywords, message_lower)
        is_psychological == AnyKeywordIn(self.psychological_keywords, message_lower)
        files_given == files /\ Len(types) > 0
    IN  IF files_given /\ AnyFileType("image", types) THEN "image_analysis"
        ELSE IF files_given /\ AnyFileType("video", types) THEN "video_analysis"
        ELSE IF files_given /\ AnyFileType("pdf", types) THEN "pdf_analysis"
        ELSE IF is_emergency /\ ~is_information_request THEN "emergency_protocol"
        ELSE IF is_psychological THEN "psychological_support"
        ELSE IF is_information_request /\ has_disaster_content THEN "disaster_information"
        ELSE "text_only"

\* mutant: the emergency test forgets the information exclusion
analyze_message_type_no_exclusion(self, msg, files, types) ==
    LET message_lower == Lower(msg)
        is_information_request == AnyKeywordIn(self.information_keywords, message_lower)
        has_disaster_content == AnyKeywordIn(self.disaster_keywords, message_lower)
        is_emergency == AnyKeywordIn(self.emergency_keywords, message_lower)
        is_psychological == AnyKeywordIn(self.psychological_keywords, message_lower)
        files_given == files /\ Len(types) > 0
    IN  IF files_given /\ AnyFileType("image", types) THEN "image_analysis"
        ELSE IF files_given /\ AnyFileType("video", types) THEN "video_analysis"
        ELSE IF files_given /\ AnyFileType("pdf", types) THEN "pdf_analysis"
        ELSE IF is_psychological THEN "psychological_support"
        ELSE IF is_information_request /\ has_disaster_content THEN "disaster_information"
        ELSE IF is_emergency THEN "emergency_protocol"
        ELSE "text_only"

\* mutant: the video test comes before the image test
analyze_message_type_video_first(self, msg, files, types) ==
    LET message_lower == Lower(msg)
        is_information_request == AnyKeywordIn(self.information_keywords, message_lower)
        has_disaster_content == AnyKeywordIn(self.disaster_keywords, message_lower)
        is_emergency == AnyKeywordIn(self.emergency_keywords, message_lower)
        is_psychological == AnyKeywordIn(self.psychological_keywords, message_lower)
        files_given == files /\ Len(types) > 0
    IN  IF files_given /\ AnyFileType("video", types) THEN "video_analysis"
        ELSE IF files_given /\ AnyFileType("image", types) THEN "image_analysis"
        ELSE IF files_given /\ AnyFileType("pdf", types) THEN "pdf_analysis"
        ELSE IF is_psychological THEN "psychological_support"
        ELSE IF is_information_request /\ has_disaster_content THEN "disaster_information"
        ELSE IF is_emergency /\ ~is_information_request THEN "emergency_protocol"
        ELSE "text_only"

\* mutant: the emergency label is not the key of the template table
analyze_message_type_short_label(self, msg, files, types) ==
    LET message_lower == Lower(msg)
        is_information_request == AnyKeywordIn(self.information_keywords, message_lower)
        has_disaster_content == AnyKeywordIn(self.disaster_keywords, message_lower)
        is_emergency == AnyKeywordIn(self.emergency_keywords, message_lower)
        is_psychological == AnyKeywordIn(self.psychological_keywords, message_lower)
        files_given == files /\ Len(types) > 0
    IN  IF files_given /\ AnyFileType("image", types) THEN "image_analysis"
        ELSE IF files_given /\ AnyFileType("video", types) THEN "video_analysis"
        ELSE IF files_given /\ AnyFileType("pdf", types) THEN "pdf_analysis"
        ELSE IF is_psychological THEN "psychological_support"
        ELSE IF is_information_request /\ has_disaster_content THEN "disaster_information"
        ELSE IF is_emergency /\ ~is_information_request THEN "emergency"
        ELSE "text_only"

\* DisasterPromptEngine.analyze_message_type
analyze_message_type(self, msg, files, types) ==
    LET message_lower == Lower(msg)
        is_information_request == AnyKeywordIn(self.information_keywords, message_lower)
        has_disaster_content == AnyKeywordIn(self.disaster_keywords, message_lower)
        is_emergency == AnyKeywordIn(self.emergency_keywords, message_lower)
        is_psychological == AnyKeywordIn(self.psychological_keywords, message_lower)
        files_given == files /\ Len(types) > 0
    IN  IF files_given /\ AnyFileType("image", types) THEN "image_analysis"
        ELSE IF files_given /\ AnyFileType("video", types) THEN "video_analysis"
        ELSE IF files_given /\ AnyFileType("pdf", types) THEN "pdf_analysis"
        ELSE IF is_psychological THEN "psychological_support"
        ELSE IF is_information_request /\ has_disaster_content THEN "disaster_information"
        ELSE IF is_emergency /\ ~is_information_request THEN "emergency_protocol"
        ELSE "text_only"

\* a dict: a function from its keys; {} and None are both the empty one
EmptyDict == [ k \in {} |-> k ]

\* d.get(key, default)
Get(d, key, default) == IF key \in DOMAIN d THEN d[key] ELSE default

\* Python truth of a dict and of a str
TruthyDict(d) == DOMAIN d # {}
TruthyStr(v) == v # ""

Placeholder == "{user_message}"

\* the first index at or after i where the placeholder starts in t, 0 if none
FirstPlaceholder(t, i) ==
    LET starts == { j \in i..(Len(t) - Len(Placeholder) + 1) :
                       SubSeq(t, j, j + Len(Placeholder) - 1) = Placeholder }
    IN  IF starts = {} THEN 0 ELSE CHOOSE j \in starts : \A k \in starts : j <= k

\* template.format(user_message=msg): every {user_message} field of the
\* template is replaced by msg (the templates hold no other brace)
RECURSIVE FormatFrom(_, _, _)
FormatFrom(t, i, msg) ==
    LET j == FirstPlaceholder(t, i)
    IN  IF j = 0 THEN SubSeq(t, i, Len(t))
        ELSE SubSeq(t, i, j - 1) \o msg \o FormatFrom(t, j + Len(Placeholder), msg)

Format(t, msg) == FormatFrom(t, 1, msg)

\* the "- key: value" lines of the preferences, in the dict's order
RECURSIVE PreferenceLines(_, _)
PreferenceLines(preferences, i) ==
    IF i > Len(preferences) THEN ""
    ELSE "- " \o preferences[i][1] \o ": " \o preferences[i][2] \o "\n"
             \o PreferenceLines(preferences, i + 1)

\* lines 304: the template of a message type, the text-only one by default
select_template(self, msg_type) ==
    IF msg_type \in DOMAIN self.specialized_prompts
    THEN self.specialized_prompts[msg_type]
    ELSE self.specialized_prompts["text_only"]

\* lines 306-327: the context and preferences block. The values of
\* inputMethod, sessionId, chatTitle and recentMessages are str, messageCount
\* is an int (formatted by the f-string), previousContext is a dict;
\* preferences is the sequence of the dict's (key, value) pairs in insertion
\* order.
context_block(context, preferences) ==
    LET previous_context == Get(context, "previousContext", EmptyDict)
    IN  (IF TruthyDict(context)
         THEN "\n\nCONTEXT INFORMATION:\n"
              \o "- Input Method: " \o Get(context, "inputMethod", "text") \o "\n"
              \o "- Session ID: " \o Get(context, "sessionId", "unknown") \o "\n"
              \o (IF TruthyDict(previous_context)
                  THEN "- Previous Messages: "
                           \o ToString(Get(previous_context, "messageCount", 0)) \o "\n"
                       \o "- Chat Topic: " \o Get(previous_context, "chatTitle", "New Chat") \o "\n"
                       \o (IF TruthyStr(Get(previous_context, "recentMessages", ""))
                           THEN "- Recent Context:\n" \o previous_context["recentMessages"] \o "\n"
                           ELSE "")
                  ELSE "")
         ELSE "")
        \o (IF Len(preferences) > 0
            THEN "\nUSER PREFERENCES:\n" \o PreferenceLines(preferences, 1)
            ELSE "")

\* mutant: the message is also written into the context block
create_specialized_prompt_echo(self, user_message, msg_type, context, preferences) ==
    self.base_context \o context_block(context, preferences)
        \o "\n- Message: " \o user_message \o "\n\n"
        \o Format(select_template(self, msg_type), user_message)

\* DisasterPromptEngine.create_specialized_prompt
create_specialized_prompt(self, user_message, msg_type, context, preferences) ==
    self.base_context \o context_block(context, preferences) \o "\n\n"
        \o Format(select_template(self, msg_type), user_message)

----------------------------------------------------------------------------
(* VisualDisasterAnalyzer *)

\* the caller's variable before analyze_image_description has returned
NoAssessment == [ returned |-> FALSE ]

\* the attributes set by VisualDisasterAnalyzer.__init__ that its methods read:
\* the "keywords" lists of disaster_patterns, in the dict's insertion order,
\* and the psychology_responses the support text is built from
VisualDisasterAnalyzer_init ==
    [ disaster_patterns |->
        << [ type |-> "flood",
             keywords |-> << "water", "flooding", "submerged", "current", "debris", "muddy" >> ],
           [ type |-> "fire",
             keywords |-> << "smoke", "flames", "fire", "burning", "ash", "charred" >> ],
           [ type |-> "earthquake",
             keywords |-> << "cracks", "collapsed", "rubble", "tilted", "broken" >> ],
           [ type |-> "structural",
             keywords |-> << "collapsed", "damaged", "broken", "cracked", "unsafe" >> ] >>,
      psychology_responses |->
        [ panic |->
            [ immediate |-> "[CALM] I can see this is overwhelming. Let's take this step by step. You're safe right now, and we'll figure out the best course of action together.",
              breathing |-> "[BREATHING] Take a slow, deep breath with me. In for 4 counts... hold for 4... out for 6. This will help clear your thinking." ],
          fear |->
            [ validation |-> "[CALM] Your fear is completely normal in this situation. It shows you're being smart and cautious about safety.",
              empowerment |-> "You're already doing the right thing by assessing the situation before acting. That's excellent judgment." ],
          confusion |->
            [ clarity |-> "I understand this situation is confusing. Let me help break down what I see and what options you have.",
              guidance |-> "It's normal to feel uncertain in emergencies. We'll focus on the most important safety steps first." ] ] ]

\* sum(1 for keyword in keywords if keyword in s)
KeywordMatches(keywords, s) ==
    Cardinality({ i \in 1..Len(keywords) : Contains(keywords[i], s) })

\* the keywords of a disaster type: patterns.get(disaster_type, {}).get("keywords", [])
PatternKeywords(self, disaster_type) ==
    IF \E i \in 1..Len(self.disaster_patterns) : self.disaster_patterns[i].type = disaster_type
    THEN LET i == CHOOSE j \in 1..Len(self.disaster_patterns) :
                      self.disaster_patterns[j].type = disaster_type
         IN  self.disaster_patterns[i].keywords
    ELSE << >>

\* mutant: of the types with two keywords the last one of the table wins
detect_disaster_type_last_type(self, desc) ==
    LET description_lower == Lower(desc)
        patterns == self.disaster_patterns
        reached == { i \in 1..Len(patterns) :
                        KeywordMatches(patterns[i].keywords, description_lower) >= 2 }
    IN  IF reached # {}
        THEN patterns[CHOOSE i \in reached : \A j \in reached : i >= j].type
        ELSE IF AnyKeywordIn(<< "water", "flood", "wet", "submerged" >>, description_lower)
             THEN "flood"
        ELSE IF AnyKeywordIn(<< "smoke", "fire", "burn", "flame" >>, description_lower)
             THEN "fire"
        ELSE IF AnyKeywordIn(<< "crack", "collapse", "damage", "broken" >>, description_lower)
             THEN "structural"
        ELSE "general_emergency"

\* mutant: the type with the most keyword hits wins, the earlier one on a tie
detect_disaster_type_most_hits(self, desc) ==
    LET description_lower == Lower(desc)
        patterns == self.disaster_patterns
        hits(i) == KeywordMatches(patterns[i].keywords, description_lower)
        reached == { i \in 1..Len(patterns) : hits(i) >= 2 }
    IN  IF reached # {}
        THEN patterns[CHOOSE i \in reached :
                         \A j \in reached : hits(i) > hits(j) \/ (hits(i) = hits(j) /\ i <= j)].type
        ELSE IF AnyKeywordIn(<< "water", "flood", "wet", "submerged" >>, description_lower)
             THEN "flood"
        ELSE IF AnyKeywordIn(<< "smoke", "fire", "burn", "flame" >>, description_lower)
             THEN "fire"
        ELSE IF AnyKeywordIn(<< "crack", "collapse", "damage", "broken" >>, description_lower)
             THEN "structural"
        ELSE "general_emergency"

\* VisualDisasterAnalyzer._detect_disaster_type
detect_disaster_type(self, desc) ==
    LET description_lower == Lower(desc)
        patterns == self.disaster_patterns
        reached == { i \in 1..Len(patterns) :
                        KeywordMatches(patterns[i].keywords, description_lower) >= 2 }
    IN  IF reached # {}
        THEN patterns[CHOOSE i \in reached : \A j \in reached : i <= j].type
        ELSE IF AnyKeywordIn(<< "water", "flood", "wet", "submerged" >>, description_lower)
             THEN "flood"
        ELSE IF AnyKeywordIn(<< "smoke", "fire", "burn", "flame" >>, description_lower)
             THEN "fire"
        ELSE IF AnyKeywordIn(<< "crack", "collapse", "damage", "broken" >>, description_lower)
             THEN "structural"
        ELSE "general_emergency"

critical_signs == << "trapped", "can't escape", "rising rapidly", "heavy smoke", "collapse", "critical" >>
high_signs == << "knee deep", "waist deep", "blocked exit", "spreading", "unstable", "dangerous" >>
moderate_signs == << "ankle deep", "light smoke", "minor crack", "manageable", "slow" >>

\* mutant: the high signs are tested before the critical signs
assess_severity_high_first(desc, disaster_type) ==
    LET description_lower == Lower(desc)
    IN  IF AnyKeywordIn(high_signs, description_lower) THEN "high"
        ELSE IF AnyKeywordIn(critical_signs, description_lower) THEN "critical"
        ELSE IF AnyKeywordIn(moderate_signs, description_lower) THEN "moderate"
        ELSE "low"

\* mutant: a description without any sign is rated moderate
assess_severity_default_moderate(desc, disaster_type) ==
    LET description_lower == Lower(desc)
    IN  IF AnyKeywordIn(critical_signs, description_lower) THEN "critical"
        ELSE IF AnyKeywordIn(high_signs, description_lower) THEN "high"
        ELSE "moderate"

\* VisualDisasterAnalyzer._assess_severity
assess_severity(desc, disaster_type) ==
    LET description_lower == Lower(desc)
    IN  IF AnyKeywordIn(critical_signs, description_lower) THEN "critical"
        ELSE IF AnyKeywordIn(high_signs, description_lower) THEN "high"
        ELSE IF AnyKeywordIn(moderate_signs, description_lower) THEN "moderate"
        ELSE "low"

\* VisualDisasterAnalyzer._generate_psychological_support
generate_psychological_support(self, desc, context) ==
    LET combined == Lower(desc) \o Lower(context)
    IN  IF AnyKeywordIn(<< "panic", "scared", "terrified", "afraid" >>, combined)
        THEN self.psychology_responses.panic.immediate \o " "
                 \o self.psychology_responses.panic.breathing
        ELSE IF AnyKeywordIn(<< "worried", "anxious", "nervous", "uncertain" >>, combined)
        THEN self.psychology_responses.fear.validation \o " "
                 \o self.psychology_responses.fear.empowerment
        ELSE IF AnyKeywordIn(<< "confused", "don't know", "not sure", "unclear" >>, combined)
        THEN self.psychology_responses.confusion.clarity \o " "
                 \o self.psychology_responses.confusion.guidance
        ELSE "[CALM] You're handling this situation well by carefully assessing before acting. That shows excellent judgment and self-control."

\* VisualDisasterAnalyzer._flood_educational_guidance
flood_educational_guidance(desc, severity_level) ==
    "[EDUCATION] FLOOD SAFETY: "
    \o (IF Contains("knee", Lower(desc)) \/ severity_level \in {"high", "critical"}
        THEN "Water at knee level or higher is EXTREMELY DANGEROUS. Just 6 inches of moving water can knock down an adult. DO NOT attempt to walk through this water. "
             \o "ACTIONS: 1) Stay where you are, 2) Move to highest available point, 3) Signal for help using phone light or noise, 4) Wait for rescue personnel."
        ELSE IF Contains("ankle", Lower(desc)) \/ severity_level = "moderate"
        THEN "Ankle-deep water requires extreme caution. ONLY proceed if: 1) Water is not moving, 2) You have sturdy shoes, 3) You can test each step carefully, 4) You have something to hold onto for balance."
        ELSE "Assess water depth and movement before any action. Even shallow moving water is dangerous.")
    \o " [CRITICAL] All flood water may contain sewage, chemicals, and dangerous debris. Avoid skin contact when possible."

\* VisualDisasterAnalyzer._fire_educational_guidance
fire_educational_guidance(desc, severity_level) ==
    "[EDUCATION] FIRE SAFETY: "
    \o (IF Contains("smoke", Lower(desc))
        THEN IF severity_level \in {"high", "critical"}
             THEN "Heavy smoke is IMMEDIATELY LIFE-THREATENING. ACTIONS: 1) Get as low as possible (crawl if necessary), 2) Exit building immediately, 3) Do NOT open doors with smoke coming underneath, 4) If trapped, seal room and signal from windows."
             ELSE "ANY visible smoke requires immediate evacuation. Stay low where air is cleaner, cover nose/mouth, exit quickly."
        ELSE "")
    \o " [CRITICAL] NEVER re-enter a building after evacuation. Meet at designated assembly point away from structure."

\* VisualDisasterAnalyzer._earthquake_educational_guidance
earthquake_educational_guidance(desc, severity_level) ==
    "[EDUCATION] EARTHQUAKE/STRUCTURAL SAFETY: "
    \o (IF Contains("crack", Lower(desc)) \/ Contains("damage", Lower(desc))
        THEN IF severity_level \in {"high", "critical"}
             THEN "Visible structural damage indicates building is UNSAFE. EVACUATE IMMEDIATELY but carefully. Watch for falling debris, broken glass, and unstable structures."
             ELSE "Any structural cracks require professional assessment. Exit carefully and do not re-enter until building is inspected."
        ELSE "")
    \o " [CRITICAL] Be prepared for aftershocks. If trapped, conserve energy, protect airways from dust, and signal for help periodically."

\* mutant: only flood, fire and earthquake have a generator of their own
generate_educational_guidance_three_types(disaster_type, desc, severity_level) ==
    IF disaster_type = "flood" THEN flood_educational_guidance(desc, severity_level)
    ELSE IF disaster_type = "fire" THEN fire_educational_guidance(desc, severity_level)
    ELSE IF disaster_type = "earthquake" THEN earthquake_educational_guidance(desc, severity_level)
    ELSE "[EDUCATION] General emergency protocol: 1) Assess immediate dangers, 2) Secure your safety first, 3) Contact emergency services, 4) Follow evacuation procedures if necessary."

\* VisualDisasterAnalyzer._generate_educational_guidance
generate_educational_guidance(disaster_type, desc, severity_level) ==
    IF disaster_type = "flood" THEN flood_educational_guidance(desc, severity_level)
    ELSE IF disaster_type = "fire" THEN fire_educational_guidance(desc, severity_level)
    ELSE IF disaster_type = "earthquake" \/ disaster_type = "structural"
         THEN earthquake_educational_guidance(desc, severity_level)
    ELSE "[EDUCATION] General emergency protocol: 1) Assess immediate dangers, 2) Secure your safety first, 3) Contact emergency services, 4) Follow evacuation procedures if necessary."

\* VisualDisasterAnalyzer._create_safety_recommendation
create_safety_recommendation(disaster_type, severity_level, desc) ==
    IF severity_level = "critical"
    THEN "IMMEDIATE EVACUATION REQUIRED - This situation poses imminent danger to life. Do not delay."
    ELSE IF severity_level = "high"
    THEN "HIGH RISK - Evacuate area safely but quickly. Avoid unnecessary exposure to hazards."
    ELSE IF severity_level = "moderate"
    THEN "PROCEED WITH EXTREME CAUTION - Assess each action carefully and be prepared to retreat."
    ELSE "LOW RISK - Monitor situation and be prepared to escalate response if conditions worsen."

\* the two actions appended first, whatever the disaster type
universal_actions ==
    << "Ensure your immediate personal safety",
       "Contact emergency services if not already done" >>

\* the actions appended for a disaster type and severity
specific_actions(disaster_type, severity_level) ==
    IF disaster_type = "flood"
    THEN IF severity_level \in {"high", "critical"}
         THEN << "Do NOT enter or attempt to cross flood water",
                 "Move to highest available location",
                 "Signal for rescue using phone light or noise",
                 "Wait for professional rescue personnel" >>
         ELSE << "Test water depth and movement carefully",
                 "Ensure you have sturdy footwear",
                 "Identify safe exit route before proceeding" >>
    ELSE IF disaster_type = "fire"
    THEN << "Exit building immediately if safe to do so",
            "Stay low to avoid smoke inhalation",
            "Feel doors for heat before opening",
            "If trapped, seal room and signal from windows" >>
    ELSE IF disaster_type \in {"earthquake", "structural"}
    THEN << "Check for immediate hazards (gas leaks, electrical)",
            "Exit building carefully if structural damage visible",
            "Be prepared for aftershocks",
            "Avoid areas with potential falling debris" >>
    ELSE << >>

\* mutant: the disaster-specific actions are put in front of the universal ones
generate_immediate_actions_specific_first(disaster_type, severity_level, desc) ==
    specific_actions(disaster_type, severity_level) \o universal_actions

\* VisualDisasterAnalyzer._generate_immediate_actions
generate_immediate_actions(disaster_type, severity_level, desc) ==
    universal_actions \o specific_actions(disaster_type, severity_level)

\* the sequence s without the entries that f rejects, kept in order
RECURSIVE SelectFrom(_, _, _)
SelectFrom(candidates, present, i) ==
    IF i > Len(candidates) THEN << >>
    ELSE (IF present[i] THEN << candidates[i] >> ELSE << >>)
             \o SelectFrom(candidates, present, i + 1)

\* VisualDisasterAnalyzer._analyze_photo_details
analyze_photo_details(desc, disaster_type) ==
    LET description_lower == Lower(desc)
        depths == << "ankle", "knee", "waist", "chest" >>
    IN  [ disaster_type |-> disaster_type,
          key_observations |->
              IF disaster_type = "flood"
              THEN SelectFrom([i \in 1..4 |-> "Water level: " \o depths[i] \o "-deep"],
                              [i \in 1..4 |-> Contains(depths[i], description_lower)], 1)
              ELSE << >>,
          hazard_indicators |->
              IF disaster_type = "flood"
              THEN (IF AnyKeywordIn(<< "moving", "current", "flowing" >>, description_lower)
                    THEN << "Moving water detected" >> ELSE << >>)
                   \o (IF AnyKeywordIn(<< "debris", "objects", "furniture" >>, description_lower)
                       THEN << "Debris in water" >> ELSE << >>)
              ELSE IF disaster_type = "fire"
                      /\ AnyKeywordIn(<< "thick", "heavy", "dense" >>, description_lower)
                      /\ Contains("smoke", description_lower)
              THEN << "Heavy smoke concentration" >>
              ELSE << >>,
          escape_route_assessment |->
              IF disaster_type = "fire"
                 /\ (Contains("exit", description_lower) \/ Contains("door", description_lower))
              THEN IF AnyKeywordIn(<< "blocked", "smoke", "hot" >>, description_lower)
                   THEN "compromised"
                   ELSE "potentially_clear"
              ELSE "unknown",
          environmental_factors |->
              (IF AnyKeywordIn(<< "dark", "night", "low visibility" >>, description_lower)
               THEN << "Low visibility conditions" >> ELSE << >>)
              \o (IF AnyKeywordIn(<< "cold", "hot", "weather" >>, description_lower)
                  THEN << "Weather considerations needed" >> ELSE << >>) ]

\* the characters str.split() separates words at
Whitespace == { " ", "\t", "\n", "\r" }

\* len(s.split()): the number of maximal runs of non-whitespace characters
WordCount(s) ==
    Cardinality({ i \in 1..Len(s) :
                    /\ SubSeq(s, i, i) \notin Whitespace
                    /\ (i = 1 \/ SubSeq(s, i - 1, i - 1) \in Whitespace) })

Min2(a, b) == IF a <= b THEN a ELSE b

\* Confidence scores are floats in the code; every value the code can produce
\* is a sum of 0.5, 0.1, 0.2 and k * 0.1 capped at 0.3 and 0.95, and the model
\* holds it in hundredths (0.5 is 50, 0.95 is 95).

\* mutant: the final cap at 0.95 is missing
calculate_confidence_uncapped(self, desc, disaster_type) ==
    LET word_count == WordCount(desc)
        detail == IF word_count > 20 THEN 20 ELSE IF word_count > 10 THEN 10 ELSE 0
        keyword_matches == KeywordMatches(PatternKeywords(self, disaster_type), Lower(desc))
    IN  50 + detail + Min2(keyword_matches * 10, 30)

\* mutant: the keyword bonus is not capped at 0.3
calculate_confidence_every_keyword(self, desc, disaster_type) ==
    LET word_count == WordCount(desc)
        detail == IF word_count > 20 THEN 20 ELSE IF word_count > 10 THEN 10 ELSE 0
        keyword_matches == KeywordMatches(PatternKeywords(self, disaster_type), Lower(desc))
    IN  Min2(50 + detail + keyword_matches * 10, 95)

\* VisualDisasterAnalyzer._calculate_confidence
calculate_confidence(self, desc, disaster_type) ==
    LET word_count == WordCount(desc)
        detail == IF word_count > 20 THEN 20 ELSE IF word_count > 10 THEN 10 ELSE 0
        keyword_matches == KeywordMatches(PatternKeywords(self, disaster_type), Lower(desc))
    IN  Min2(50 + detail + Min2(keyword_matches * 10, 30), 95)

\* VisualDisasterAnalyzer.analyze_image_description
analyze_image_description(self, desc, context) ==
    LET disaster_type == detect_disaster_type(self, desc)
        severity_level == assess_severity(desc, disaster_type)
    IN  [ disaster_type |-> disaster_type,
          severity_level |-> severity_level,
          safety_recommendation |-> create_safety_recommendation(disaster_type, severity_level, desc),
          psychological_support |-> generate_psychological_support(self, desc, context),
          educational_guidance |-> generate_educational_guidance(disaster_type, desc, severity_level),
          immediate_actions |-> generate_immediate_actions(disaster_type, severity_level, desc),
          photo_analysis |-> analyze_photo_details(desc, disaster_type),
          confidence_score |-> calculate_confidence(self, desc, disaster_type) ]

----------------------------------------------------------------------------
(* GeminiAPIHandler. The texts are those of the source; every character     *)
(* outside ASCII is written ~.                                              *)

\* line 360
text_msg_unavailable ==
    "~~~~ **Server Status: Gemini API Unavailable**\n"
    \o "\n"
    \o "The AI service is currently not configured or experiencing issues. This could "
    \o "be due to:\n"
    \o "\n"
    \o "~~~ Missing or invalid API key\n"
    \o "~~~ Network connectivity issues\n"
    \o "~~~ Service temporarily down\n"
    \o "\n"
    \o "~~~~ **What you can do:**\n"
    \o "~~~ Check your internet connection\n"
    \o "~~~ Verify API key configuration\n"
    \o "~~~ Try again in a few moments\n"
    \o "~~~ Contact support if the issue persists\n"
    \o "\n"
    \o "**Emergency Note:** If you're experiencing an immediate emergency, please call "
    \o "911 or your local emergency services right away."

\* line 364
text_msg_model_unavailable ==
    "~~~~ **Server Status: AI Model Unavailable**\n"
    \o "\n"
    \o "The AI model failed to initialize. This usually indicates:\n"
    \o "\n"
    \o "~~~ Invalid API key configuration\n"
    \o "~~~ Service authentication issues\n"
    \o "~~~ Temporary service disruption\n"
    \o "\n"
    \o "~~~~ **Recommended actions:**\n"
    \o "~~~ Check API key validity\n"
    \o "~~~ Wait a few minutes and try again\n"
    \o "~~~ Contact technical support\n"
    \o "\n"
    \o "**Emergency Note:** For immediate assistance with disasters or emergencies, "
    \o "please contact local emergency services directly."

\* line 369
text_msg_no_response ==
    "~~~~ **Server Status: No Response Received**\n"
    \o "\n"
    \o "The AI service didn't provide a response. This might be due to:\n"
    \o "\n"
    \o "~~~ Temporary service overload\n"
    \o "~~~ Request processing issues\n"
    \o "~~~ Content filtering restrictions\n"
    \o "\n"
    \o "~~~~ **Please try:**\n"
    \o "~~~ Rephrasing your question\n"
    \o "~~~ Waiting a moment and trying again\n"
    \o "~~~ Simplifying your request\n"
    \o "\n"
    \o "**Emergency Note:** For urgent situations, contact emergency services "
    \o "immediately."

\* line 372
text_msg_invalid_response ==
    "~~~~ **Server Status: Invalid Response Format**\n"
    \o "\n"
    \o "Received an unexpected response format from the AI service. This indicates:\n"
    \o "\n"
    \o "~~~ Service compatibility issues\n"
    \o "~~~ Response parsing problems\n"
    \o "~~~ Temporary service malfunction\n"
    \o "\n"
    \o "~~~~ **Next steps:**\n"
    \o "~~~ Try your request again\n"
    \o "~~~ Check service status\n"
    \o "~~~ Contact support if problem persists\n"
    \o "\n"
    \o "**Emergency Note:** If this is an emergency, please call 911 or local emergency "
    \o "services."

\* line 383
text_msg_authentication ==
    "~~~~ **Server Status: Authentication Failed**\n"
    \o "\n"
    \o "The AI service authentication failed. This usually means:\n"
    \o "\n"
    \o "~~~ Invalid or expired API key\n"
    \o "~~~ Insufficient permissions\n"
    \o "~~~ Account access issues\n"
    \o "\n"
    \o "~~~~ **Resolution:**\n"
    \o "~~~ Verify API key is correct and active\n"
    \o "~~~ Check account status\n"
    \o "~~~ Contact administrator for key renewal\n"
    \o "\n"
    \o "**Emergency Note:** For immediate emergency assistance, contact local emergency "
    \o "services directly."

\* line 386
text_msg_quota ==
    "~~~~ **Server Status: Service Quota Exceeded**\n"
    \o "\n"
    \o "The AI service has reached its usage limits:\n"
    \o "\n"
    \o "~~~ Daily/monthly quota exceeded\n"
    \o "~~~ Rate limiting in effect\n"
    \o "~~~ Resource allocation exhausted\n"
    \o "\n"
    \o "~~~~ **What to do:**\n"
    \o "~~~ Wait for quota reset (usually next day/month)\n"
    \o "~~~ Contact administrator for quota increase\n"
    \o "~~~ Try again later\n"
    \o "\n"
    \o "**Emergency Note:** If you need immediate emergency assistance, please call 911 "
    \o "or local emergency services."

\* line 389
text_msg_network ==
    "~~~~ **Server Status: Network Connection Issues**\n"
    \o "\n"
    \o "Unable to connect to AI services due to:\n"
    \o "\n"
    \o "~~~ Internet connectivity problems\n"
    \o "~~~ Server network issues\n"
    \o "~~~ Service temporarily unreachable\n"
    \o "\n"
    \o "~~~~ **Troubleshooting:**\n"
    \o "~~~ Check your internet connection\n"
    \o "~~~ Try again in a few minutes\n"
    \o "~~~ Contact network administrator\n"
    \o "\n"
    \o "**Emergency Note:** For urgent situations requiring immediate help, contact "
    \o "emergency services directly."

\* line 392
text_msg_service_down ==
    "~~~~~~ **Server Status: AI Service Temporarily Down**\n"
    \o "\n"
    \o "The AI service is currently experiencing issues:\n"
    \o "\n"
    \o "~~~ Service maintenance in progress\n"
    \o "~~~ Temporary server outage\n"
    \o "~~~ System updates being applied\n"
    \o "\n"
    \o "~~~~ **Expected resolution:**\n"
    \o "~~~ Service should resume shortly\n"
    \o "~~~ Check back in 10-15 minutes\n"
    \o "~~~ Monitor service status page\n"
    \o "\n"
    \o "**Emergency Note:** If this is an emergency situation, do not wait - contact "
    \o "911 or your local emergency services immediately."

\* line 395: an f-string around str(e)[:200]
text_msg_unexpected(e) ==
    "~~~ **Server Status: Unexpected Error**\n"
    \o "\n"
    \o "An unexpected error occurred while processing your request:\n"
    \o "\n"
    \o "**Error details:** "
    \o SubSeq(e, 1, Min2(Len(e), 200))
    \o "\n"
       \o "\n"
       \o "~~~~ **Recommended actions:**\n"
       \o "~~~ Try your request again\n"
       \o "~~~ Simplify your message\n"
       \o "~~~ Contact technical support if issue persists\n"
       \o "\n"
       \o "**Emergency Note:** For immediate emergency assistance, please call 911 or "
       \o "local emergency services directly."

\* line 400
file_msg_unavailable ==
    "~~~~ **File Analysis Service Unavailable**\n"
    \o "\n"
    \o "The AI file analysis service is currently not available due to:\n"
    \o "\n"
    \o "~~~ Missing or invalid API key\n"
    \o "~~~ Service configuration issues\n"
    \o "~~~ Network connectivity problems\n"
    \o "\n"
    \o "~~~~ **For file analysis, you can:**\n"
    \o "~~~ Describe what you see in the file manually\n"
    \o "~~~ Try uploading again after checking connection\n"
    \o "~~~ Contact support for API key assistance\n"
    \o "\n"
    \o "**Emergency Note:** If your file shows an emergency situation, describe it in "
    \o "text and call 911 if immediate help is needed."

\* line 437
file_msg_model_unavailable ==
    "~~~~ **File Analysis Model Unavailable**\n"
    \o "\n"
    \o "The AI model for file analysis failed to initialize:\n"
    \o "\n"
    \o "~~~ Invalid API key configuration\n"
    \o "~~~ Service authentication issues\n"
    \o "~~~ Model loading problems\n"
    \o "\n"
    \o "~~~~ **Alternative options:**\n"
    \o "~~~ Describe your file content in text\n"
    \o "~~~ Check API key configuration\n"
    \o "~~~ Try again in a few minutes\n"
    \o "\n"
    \o "**Emergency Note:** If your file contains emergency information, please "
    \o "describe the situation in text and contact emergency services if needed."

\* line 442
file_msg_no_response ==
    "~~~~ **File Analysis Failed**\n"
    \o "\n"
    \o "No response received from the file analysis service:\n"
    \o "\n"
    \o "~~~ File might be too large or complex\n"
    \o "~~~ Service temporarily overloaded\n"
    \o "~~~ File format processing issues\n"
    \o "\n"
    \o "~~~~ **What you can try:**\n"
    \o "~~~ Upload a smaller or different file\n"
    \o "~~~ Describe the file content manually\n"
    \o "~~~ Try again in a few moments\n"
    \o "\n"
    \o "**Emergency Note:** If your file shows an emergency, describe what you see and "
    \o "contact 911 if immediate help is needed."

\* line 445
file_msg_response_error ==
    "~~~~ **File Analysis Response Error**\n"
    \o "\n"
    \o "Received invalid response from file analysis service:\n"
    \o "\n"
    \o "~~~ Response format issues\n"
    \o "~~~ Content filtering restrictions\n"
    \o "~~~ Processing limitations\n"
    \o "\n"
    \o "~~~~ **Recommended actions:**\n"
    \o "~~~ Try uploading a different file\n"
    \o "~~~ Describe your file content in text\n"
    \o "~~~ Contact support if problem persists\n"
    \o "\n"
    \o "**Emergency Note:** For urgent situations, describe what you see in the file "
    \o "and contact emergency services directly."

\* line 456
file_msg_too_large ==
    "~~~~ **File Too Large for Analysis**\n"
    \o "\n"
    \o "Your file exceeds the processing limits:\n"
    \o "\n"
    \o "~~~ Maximum file size exceeded\n"
    \o "~~~ Processing capacity limits reached\n"
    \o "~~~ Service resource constraints\n"
    \o "\n"
    \o "~~~~ **Solutions:**\n"
    \o "~~~ Try a smaller file (under 10MB)\n"
    \o "~~~ Compress the file if possible\n"
    \o "~~~ Describe the file content manually\n"
    \o "\n"
    \o "**Emergency Note:** If your file shows an emergency situation, describe what "
    \o "you see in text and call 911 if immediate help is needed."

\* line 459
file_msg_unsupported_format ==
    "~~~~ **Unsupported File Format**\n"
    \o "\n"
    \o "The file format cannot be processed:\n"
    \o "\n"
    \o "~~~ File type not supported\n"
    \o "~~~ Corrupted file data\n"
    \o "~~~ Invalid file encoding\n"
    \o "\n"
    \o "~~~~ **Supported formats:**\n"
    \o "~~~ Images: JPG, PNG, GIF\n"
    \o "~~~ Videos: MP4, AVI, MOV\n"
    \o "~~~ Documents: PDF\n"
    \o "\n"
    \o "**Emergency Note:** If your file contains emergency information, please "
    \o "describe the content in text and contact emergency services if needed."

\* line 462
file_msg_network ==
    "~~~~ **File Upload Network Error**\n"
    \o "\n"
    \o "Network issues prevented file processing:\n"
    \o "\n"
    \o "~~~ Connection timeout during upload\n"
    \o "~~~ Network connectivity problems\n"
    \o "~~~ Service temporarily unreachable\n"
    \o "\n"
    \o "~~~~ **Try these steps:**\n"
    \o "~~~ Check your internet connection\n"
    \o "~~~ Try uploading again\n"
    \o "~~~ Use a smaller file if possible\n"
    \o "\n"
    \o "**Emergency Note:** If this file shows an emergency, describe the situation in "
    \o "text and contact 911 immediately if help is needed."

\* line 465: an f-string around str(e)[:200]
file_msg_processing_error(e) ==
    "~~~ **File Processing Error**\n"
    \o "\n"
    \o "Unexpected error during file analysis:\n"
    \o "\n"
    \o "**Error details:** "
    \o SubSeq(e, 1, Min2(Len(e), 200))
    \o "\n"
       \o "\n"
       \o "~~~~ **Alternative approaches:**\n"
       \o "~~~ Describe your file content in text\n"
       \o "~~~ Try uploading a different file\n"
       \o "~~~ Contact technical support\n"
       \o "\n"
       \o "**Emergency Note:** If your file relates to an emergency situation, describe "
       \o "what you see and contact emergency services immediately if help is needed."

\* line 470
pdf_msg_not_available ==
    "PDF processing not available - install PyPDF2: pip install PyPDF2"

\* line 484
pdf_msg_extraction_error ==
    "Error extracting PDF content"


\* self.model when no model was configured (lines 337, 346)
NoModel == "None"

\* lines 335-351: the handler has a model when an API key is given, the
\* library is installed and configuring it succeeds
GeminiAPIHandler_init(configured) ==
    [ model |-> IF configured THEN "gemini-1.5-flash" ELSE NoModel ]

\* lines 353-355
is_available(self) == self.model # NoModel

\* what self.model.generate_content(...) does: it returns a response with
\* text, returns nothing, returns a response without text, or raises
Replied(text) == [ kind |-> "text", text |-> text, error |-> "" ]
NoResponse == [ kind |-> "no_response", text |-> "", error |-> "" ]
NoText == [ kind |-> "no_text", text |-> "", error |-> "" ]
Raises(error) == [ kind |-> "raises", text |-> "", error |-> error ]
\* generate_content is not called
ModelNotCalled == [ kind |-> "not_called", text |-> "", error |-> "" ]

\* lines 380-395: the except branch of process_text_request
text_error_response(e) ==
    LET error_msg == Lower(e)
    IN  IF Contains("api_key", error_msg) \/ Contains("authentication", error_msg)
              \/ Contains("unauthorized", error_msg)
        THEN text_msg_authentication
        ELSE IF Contains("quota", error_msg) \/ Contains("limit", error_msg)
              \/ Contains("exceeded", error_msg)
        THEN text_msg_quota
        ELSE IF Contains("network", error_msg) \/ Contains("connection", error_msg)
              \/ Contains("timeout", error_msg)
        THEN text_msg_network
        ELSE IF Contains("service", error_msg) \/ Contains("unavailable", error_msg)
              \/ Contains("down", error_msg)
        THEN text_msg_service_down
        ELSE text_msg_unexpected(e)

\* GeminiAPIHandler.process_text_request; outcome is what generate_content does
process_text_request(self, specialized_prompt, outcome) ==
    IF ~is_available(self) THEN text_msg_unavailable
    ELSE IF self.model = NoModel THEN text_msg_model_unavailable
    ELSE IF outcome.kind = "raises" THEN text_error_response(outcome.error)
    ELSE IF outcome.kind = "no_response" THEN text_msg_no_response
    ELSE IF outcome.kind = "no_text" THEN text_msg_invalid_response
    ELSE outcome.text

\* a value or an exception, as a statement that may raise leaves it
Value(v) == [ raised |-> FALSE, value |-> v, error |-> "" ]
Raised(error) == [ raised |-> TRUE, value |-> << >>, error |-> error ]

\* a MIME type as it reaches the gateway: a str, None, or no such key
MimeStr(s) == [ json |-> "str", value |-> s ]
MimeNone == [ json |-> "null", value |-> "" ]
MimeMissing == [ json |-> "missing", value |-> "" ]

\* file data: bytes read from an upload, or the str of a JSON body, or no such key
Bytes(n) == [ type |-> "bytes", size |-> n ]
JsonText(n) == [ type |-> "str", size |-> n ]
DataMissing == [ type |-> "missing", size |-> 0 ]

StartsWith(s, prefix) == Len(s) >= Len(prefix) /\ SubSeq(s, 1, Len(prefix)) = prefix

\* lines 467-484: the text of a PDF; extraction is "ok", "fails" (caught at
\* line 482) or "no_library" (PyPDF2 is None); a str in place of bytes makes
\* BytesIO raise inside the try
extract_pdf_text(pdf_data, extraction) ==
    IF extraction = "no_library" THEN pdf_msg_not_available
    ELSE IF pdf_data.type # "bytes" \/ extraction = "fails" THEN pdf_msg_extraction_error
    ELSE "page one\npage two"

\* mutant: a PDF whose text cannot be extracted stops the request
content_parts_pdf_required(specialized_prompt, file_data, mime_type, extraction) ==
    IF mime_type.json # "str"
    THEN Raised("'NoneType' object has no attribute 'startswith'")
    ELSE IF StartsWith(mime_type.value, "image/") \/ StartsWith(mime_type.value, "video/")
    THEN IF file_data.type # "bytes"
         THEN Raised("a bytes-like object is required, not 'str'")
         ELSE Value(<< [ text |-> specialized_prompt ],
                       [ mime_type |-> mime_type.value, base64_of |-> file_data ] >>)
    ELSE IF mime_type.value = "application/pdf"
    THEN IF extract_pdf_text(file_data, extraction) \in { pdf_msg_not_available,
                                                           pdf_msg_extraction_error }
         THEN Raised(extract_pdf_text(file_data, extraction))
         ELSE Value(<< [ text |-> specialized_prompt \o "\n\nPDF CONTENT:\n"
                                     \o extract_pdf_text(file_data, extraction) ] >>)
    ELSE Value(<< [ text |-> specialized_prompt ] >>)

\* lines 404-434: the parts sent to the model, or the exception of
\* mime_type.startswith on None and of b64encode on a str
content_parts(specialized_prompt, file_data, mime_type, extraction) ==
    IF mime_type.json # "str"
    THEN Raised("'NoneType' object has no attribute 'startswith'")
    ELSE IF StartsWith(mime_type.value, "image/") \/ StartsWith(mime_type.value, "video/")
    THEN IF file_data.type # "bytes"
         THEN Raised("a bytes-like object is required, not 'str'")
         ELSE Value(<< [ text |-> specialized_prompt ],
                       [ mime_type |-> mime_type.value, base64_of |-> file_data ] >>)
    ELSE IF mime_type.value = "application/pdf"
    THEN Value(<< [ text |-> specialized_prompt \o "\n\nPDF CONTENT:\n"
                                \o extract_pdf_text(file_data, extraction) ] >>)
    ELSE Value(<< [ text |-> specialized_prompt ] >>)

\* lines 453-465: the except branch of process_multimodal_request
file_error_response(e) ==
    LET error_msg == Lower(e)
    IN  IF Contains("file size", error_msg) \/ Contains("too large", error_msg)
              \/ Contains("exceeds", error_msg)
        THEN file_msg_too_large
        ELSE IF Contains("format", error_msg) \/ Contains("unsupported", error_msg)
              \/ Contains("invalid", error_msg)
        THEN file_msg_unsupported_format
        ELSE IF Contains("network", error_msg) \/ Contains("connection", error_msg)
              \/ Contains("timeout", error_msg)
        THEN file_msg_network
        ELSE file_msg_processing_error(e)

\* GeminiAPIHandler.process_multimodal_request
process_multimodal_request(self, specialized_prompt, file_data, mime_type, extraction, outcome) ==
    IF ~is_available(self) THEN file_msg_unavailable
    ELSE LET parts == content_parts(specialized_prompt, file_data, mime_type, extraction)
         IN  IF parts.raised THEN file_error_response(parts.error)
             ELSE IF self.model = NoModel THEN file_msg_model_unavailable
             ELSE IF outcome.kind = "raises" THEN file_error_response(outcome.error)
             ELSE IF outcome.kind = "no_response" THEN file_msg_no_response
             ELSE IF outcome.kind = "no_text" THEN file_msg_response_error
             ELSE outcome.text

----------------------------------------------------------------------------
(* ChatbotBackend and the /api/chat endpoint *)

\* line 563
chat_msg_processing_error ==
    "~~~~~~ Sorry, I encountered an error processing your request. Please try again."

\* line 632
chat_msg_endpoint_error ==
    "~~~~~~ Sorry, I encountered an error. Please try again."

\* lines 489-493; the handler is the one chat.gemini_handler names
ChatbotBackend_init ==
    [ allowed_extensions |-> { "png", "jpg", "jpeg", "gif", "mp4", "avi", "mov", "pdf" },
      max_file_size |-> 10 * 1024 * 1024 ]

\* the last index of a dot in filename, 0 if it has none
LastDot(filename) ==
    LET dots == { i \in 1..Len(filename) : SubSeq(filename, i, i) = "." }
    IN  IF dots = {} THEN 0 ELSE CHOOSE i \in dots : \A j \in dots : j <= i

\* filename.rsplit('.', 1)[1]
Extension(filename) == SubSeq(filename, LastDot(filename) + 1, Len(filename))

\* lines 495-498
is_allowed_file(self, filename) ==
    /\ LastDot(filename) > 0
    /\ Lower(Extension(filename)) \in self.allowed_extensions

\* lines 500-502
validate_file_size(self, file_data) == file_data.size <= self.max_file_size

\* mimetypes.guess_type(filename)[0] for the extensions an upload can have; a
\* name that is dots and then the extension (".pdf") has no extension for it
guess_type(filename) ==
    LET ext == IF \A i \in 1..(LastDot(filename) - 1) : SubSeq(filename, i, i) = "."
               THEN ""
               ELSE Lower(Extension(filename))
    IN  CASE ext = "png" -> MimeStr("image/png")
          [] ext \in { "jpg", "jpeg" } -> MimeStr("image/jpeg")
          [] ext = "gif" -> MimeStr("image/gif")
          [] ext = "mp4" -> MimeStr("video/mp4")
          [] ext = "avi" -> MimeStr("video/x-msvideo")
          [] ext = "mov" -> MimeStr("video/quicktime")
          [] ext = "pdf" -> MimeStr("application/pdf")
          [] OTHER -> MimeNone

\* lines 600-609: the uploads that become entries of files_data; an upload
\* without a filename, with another extension or over the size limit is
\* passed over
RECURSIVE accepted_uploads(_, _, _)
accepted_uploads(self, uploaded_files, i) ==
    IF i > Len(uploaded_files) THEN << >>
    ELSE LET file == uploaded_files[i]
             file_data == Bytes(file.size)
         IN  (IF file.filename # "" /\ is_allowed_file(self, file.filename)
                    /\ validate_file_size(self, file_data)
              THEN << [ data |-> file_data,
                        mime_type |-> IF file.content_type # "" THEN MimeStr(file.content_type)
                                      ELSE guess_type(file.filename),
                        filename |-> file.filename ] >>
              ELSE << >>)
             \o accepted_uploads(self, uploaded_files, i + 1)

\* message.strip()
Strip(s) ==
    LET kept == { i \in 1..Len(s) : SubSeq(s, i, i) \notin Whitespace }
    IN  IF kept = {} THEN ""
        ELSE SubSeq(s, CHOOSE i \in kept : \A j \in kept : i <= j,
                       CHOOSE i \in kept : \A j \in kept : j <= i)

\* line 519: f.get('mime_type', '') for every file
mime_types_of(files) ==
    [ i \in 1..Len(files) |->
        IF files[i].mime_type.json = "missing" THEN MimeStr("") ELSE files[i].mime_type ]

\* lines 522-524: analyze_message_type on the MIME types of the files. With a
\* None among them, 'image' in None raises TypeError unless an earlier entry
\* already ended the search for an image.
analyze_message_type_of_files(self, msg, has_files_arg, types) ==
    LET strs == [ i \in 1..Len(types) |-> types[i].value ]
        nones == { i \in 1..Len(types) : types[i].json = "null" }
        reached == \E i \in nones : \A j \in 1..(i - 1) : ~Contains("image", strs[j])
    IN  IF has_files_arg /\ Len(types) > 0 /\ reached
        THEN Raised("argument of type 'NoneType' is not iterable")
        ELSE Value(analyze_message_type(self, msg, has_files_arg, strs))

----------------------------------------------------------------------------
(* DisasterPsychologyAPI.__init__ (src/student/disaster_psychology_api.py): *)
(* conversation_history is {}. A list is an object of its own: the dict     *)
(* maps a session id to the reference of its list, and lists maps every     *)
(* reference to the entries of that list.                                   *)

DisasterPsychologyAPI_init == [ conversation_history |-> EmptyDict, lists |-> EmptyDict ]

----------------------------------------------------------------------------
(* Inputs *)

\* all sequences over 1..n of length lo..hi
IndexSeqs(n, lo, hi) == UNION { [1..k -> 1..n] : k \in lo..hi }

RECURSIVE JoinFrom(_, _, _)
JoinFrom(frags, idx, i) ==
    IF i > Len(idx) THEN ""
    ELSE (IF i = 1 THEN "" ELSE " ") \o frags[idx[i]] \o JoinFrom(frags, idx, i + 1)

\* the fragments idx names, joined by single spaces
Join(frags, idx) == JoinFrom(frags, idx, 1)

MessageFragments ==
    << "Hello",
       "I'm trapped",
       "having a panic attack",
       "any news",
       "the FLOOD",
       "about the trapped workers",
       "scared of the fire" >>

\* the two messages of spec.md section 8
ExampleMessages ==
    { "any news about the trapped workers",
      "I'm trapped and having a panic attack" }

Messages ==
    { Join(MessageFragments, idx) : idx \in IndexSeqs(Len(MessageFragments), 1, MaxFragments) }
        \cup ExampleMessages

\* MIME types as chat_endpoint and process_chat_request pass them on
MimeTypes == << "image/png", "video/mp4", "application/pdf", "text/plain" >>

\* one attachment of each recognized category, the image last
ExampleFileLists == { << "application/pdf", "video/mp4", "image/png" >> }

FileTypeLists ==
    { [i \in 1..Len(idx) |-> MimeTypes[idx[i]]] : idx \in IndexSeqs(Len(MimeTypes), 0, MaxFiles) }
        \cup ExampleFileLists

DescriptionFragments ==
    << "muddy water",
       "knee deep",
       "Knee-deep",
       "rising rapidly",
       "ankle deep",
       "heavy smoke and flames",
       "cracks and rubble",
       "damaged and unsafe",
       "some debris",
       "people are waiting in the main corridor near the old science building stairs" >>

\* the descriptions of spec.md section 8, of the module's own test scenarios
\* and training scenarios, and the empty description
ExampleDescriptions ==
    { "Flood water knee-deep, moving slowly, debris floating",
      "water is trapped and rising rapidly and knee deep",
      "College corridor with knee-deep muddy water, students visible in background, water appears to be moving slowly, debris floating including papers and a plastic chair",
      "Classroom with light smoke visible near ceiling, door closed, some students near windows, emergency lighting on",
      "Knee-deep flood water in college corridor with debris floating",
      "Heavy smoke visible under classroom door, students by windows",
      "Large cracks in wall after earthquake, ceiling partially collapsed",
      "everyone here is scared",
      "water and debris with smoke, flames and fire",
      "the floor is wet",
      "I can smell something burning",
      "a small crack in the window",
      "broken tiles, cracks and ash, flames",
      "muddy water with debris, strong current, cars submerged",
      "muddy water up to my knee, debris everywhere",
      "Thick smoke and flames in the lab, fire is spreading fast toward the main stairs",
      "" }

Descriptions ==
    { Join(DescriptionFragments, idx) :
          idx \in IndexSeqs(Len(DescriptionFragments), 1, MaxFragments) }
        \cup ExampleDescriptions

UserContexts ==
    { "", "need to reach exit", "I'm scared and not sure what to do" }

----------------------------------------------------------------------------
(* The classifier as a state machine: one call of analyze_message_type *)

\* the engines as their constructors leave them
Constructed ==
    /\ prompt_engine = DisasterPromptEngine_init
    /\ visual_analyzer = VisualDisasterAnalyzer_init

\* no call of the other component is in progress
NoClassifyCall ==
    /\ message = "" /\ has_files = FALSE /\ file_types = << >> /\ message_type = NotCalled

NoAssessCall ==
    /\ description = "" /\ user_context = "" /\ assessment = NoAssessment

Calls == 1..MaxCalls

\* the frame of a call slot no call is running in
IdleFrame == [ op |-> "idle", pc |-> "idle", args |-> << >>, locals |-> << >>, result |-> << >> ]

NoConcurrentCalls == calls = [ c \in Calls |-> IdleFrame ]

\* create_specialized_prompt is not being called on its own
NoPromptCall == prompt_call = [ specialized_prompt |-> NotCalled ]

\* no request to /api/chat has arrived
IdleChat == [ pc |-> "idle" ]

NoChatRequest == chat = IdleChat

\* the psychology API is as constructed and serves no request
Threads == 1..MaxThreads

IdleThread == [ op |-> "idle", pc |-> "idle" ]

NoCall == [ op |-> "none" ]

NoHistoryCalls ==
    /\ api = DisasterPsychologyAPI_init
    /\ threads = [ t \in Threads |-> IdleThread ]
    /\ last_call = NoCall

InitClassify ==
    /\ Constructed
    /\ NoAssessCall
    /\ NoConcurrentCalls
    /\ NoHistoryCalls
    /\ NoPromptCall
    /\ NoChatRequest
    /\ message \in Messages
    /\ has_files \in BOOLEAN
    /\ file_types \in FileTypeLists
    /\ message_type = NotCalled

AnalyzeMessageType ==
    /\ message_type = NotCalled
    /\ message_type' = analyze_message_type(prompt_engine, message, has_files, file_types)
    /\ UNCHANGED <<prompt_engine, visual_analyzer, message, has_files, file_types, assessVars, calls, prompt_call, chat, historyVars>>

NextClassify == AnalyzeMessageType

SpecClassify == InitClassify /\ [][NextClassify]_vars

----------------------------------------------------------------------------
(* The assessment engine as a state machine: one call of                   *)
(* analyze_image_description                                               *)

InitAssess ==
    /\ Constructed
    /\ NoClassifyCall
    /\ NoConcurrentCalls
    /\ NoHistoryCalls
    /\ NoPromptCall
    /\ NoChatRequest
    /\ description \in Descriptions
    /\ user_context \in UserContexts
    /\ assessment = NoAssessment

AnalyzeImageDescription ==
    /\ assessment = NoAssessment
    /\ assessment' = analyze_image_description(visual_analyzer, description, user_context)
    /\ UNCHANGED <<prompt_engine, visual_analyzer, classifyVars, description, user_context, calls, prompt_call, chat, historyVars>>

NextAssess == AnalyzeImageDescription

SpecAssess == InitAssess /\ [][NextAssess]_vars

----------------------------------------------------------------------------
(* The prompt builder as a state machine: one call of                      *)
(* create_specialized_prompt                                               *)

\* messages: one that occurs nowhere in the fixed texts, one that the persona
\* preamble and the templates hold themselves, the chat title and a
\* preference value of the contexts below, the replacement field itself, and
\* the empty message
PromptMessages ==
    { "I'm trapped in sector 7", "help", "Flood help", "supportive", "{user_message}", "" }

\* the seven labels of the classifier and one label no template is keyed by
PromptTypes ==
    { "text_only", "disaster_information", "image_analysis", "video_analysis",
      "pdf_analysis", "psychological_support", "emergency_protocol", "unknown_type" }

\* context as process_chat_request passes it on (lines 509, 528)
PromptContexts ==
    { EmptyDict,
      [ inputMethod |-> "voice", sessionId |-> "s1" ],
      [ sessionId |-> "s1",
        previousContext |-> [ messageCount |-> 2, chatTitle |-> "Flood help",
                              recentMessages |-> "user: is the bridge open" ] ] }

PromptPreferences ==
    { << >>, << << "responseStyle", "supportive" >>, << "language", "en" >> >> }

InitPrompt ==
    /\ Constructed
    /\ NoClassifyCall
    /\ NoAssessCall
    /\ NoConcurrentCalls
    /\ NoHistoryCalls
    /\ NoChatRequest
    /\ \E m \in PromptMessages, t \in PromptTypes, c \in PromptContexts, p \in PromptPreferences :
          prompt_call = [ user_message |-> m, message_type |-> t, context |-> c,
                          preferences |-> p, specialized_prompt |-> NotCalled ]

CreateSpecializedPrompt ==
    /\ prompt_call.specialized_prompt = NotCalled
    /\ prompt_call' =
          [prompt_call EXCEPT !.specialized_prompt =
              create_specialized_prompt(prompt_engine, prompt_call.user_message,
                                        prompt_call.message_type, prompt_call.context,
                                        prompt_call.preferences)]
    /\ UNCHANGED <<prompt_engine, visual_analyzer, classifyVars, assessVars, calls, chat, historyVars>>

NextPrompt == CreateSpecializedPrompt

SpecPrompt == InitPrompt /\ [][NextPrompt]_vars

----------------------------------------------------------------------------
(* One request to /api/chat as a state machine: chat_endpoint and, inside   *)
(* it, process_chat_request, statement group by statement group. The        *)
(* handler of the backend is chat.gemini_handler; /api/config replaces it.  *)

JsonStr(s) == [ json |-> "str", value |-> s ]
JsonNull == [ json |-> "null", value |-> "" ]

\* a context: a dict, or another JSON value that is true ("abc") or false (null)
ContextDict(d) == [ kind |-> "dict", dict |-> d ]
ContextOther(truthy) == [ kind |-> IF truthy THEN "truthy_other" ELSE "falsy_other", dict |-> EmptyDict ]

JsonRequest(msg, context, preferences, files) ==
    [ is_json |-> TRUE, body_is_object |-> TRUE, message |-> msg, context |-> context,
      preferences |-> preferences, files |-> files, uploads |-> << >> ]

FormRequest(msg, context, preferences, uploads) ==
    [ is_json |-> FALSE, body_is_object |-> FALSE, message |-> JsonStr(msg), context |-> context,
      preferences |-> preferences, files |-> << >>, uploads |-> uploads ]

Upload(filename, size, content_type) ==
    [ filename |-> filename, size |-> size, content_type |-> content_type ]

FileDict(mime_type, data) == [ mime_type |-> mime_type, data |-> data, filename |-> "unknown" ]

SessionContext ==
    ContextDict([ sessionId |-> "s1", inputMethod |-> "voice",
                  previousContext |-> [ messageCount |-> 2, chatTitle |-> "Flood help" ] ])

\* the requests: JSON bodies and form posts, with and without attachments,
\* well-formed and not
ChatRequests ==
    { JsonRequest(JsonStr("Hello"), ContextDict(EmptyDict), << >>, << >>),
      JsonRequest(JsonStr("  \n "), ContextDict(EmptyDict), << >>, << >>),
      JsonRequest(JsonStr(""), SessionContext, << >>,
                  << FileDict(MimeStr("image/png"), JsonText(12)) >>),
      JsonRequest(JsonNull, ContextDict(EmptyDict), << >>, << >>),
      [ JsonRequest(JsonStr("Hello"), ContextDict(EmptyDict), << >>, << >>)
            EXCEPT !.body_is_object = FALSE ],
      JsonRequest(JsonStr("I'm trapped"), ContextOther(TRUE), << >>, << >>),
      JsonRequest(JsonStr("I'm trapped"), ContextOther(FALSE), << >>, << >>),
      JsonRequest(JsonStr("what does this show"), SessionContext, << >>,
                  << FileDict(MimeStr("image/png"), JsonText(12)) >>),
      JsonRequest(JsonStr("what does this show"), ContextDict(EmptyDict), << >>,
                  << FileDict(MimeStr("image/png"), DataMissing) >>),
      JsonRequest(JsonStr("what does this show"), ContextDict(EmptyDict), << >>,
                  << FileDict(MimeMissing, JsonText(12)) >>),
      JsonRequest(JsonStr("what does this show"), ContextDict(EmptyDict), << >>,
                  << FileDict(MimeNone, JsonText(12)) >>),
      JsonRequest(JsonStr("read this"), ContextDict(EmptyDict), << >>,
                  << FileDict(MimeStr("application/pdf"), JsonText(12)) >>),
      FormRequest("any news about the flood", SessionContext,
                  << << "responseStyle", "supportive" >> >>, << >>),
      FormRequest("   ", ContextDict(EmptyDict), << >>, << Upload("photo.png", 1024, "image/png") >>),
      FormRequest("what does this show", ContextDict(EmptyDict), << >>,
                  << Upload("photo.png", 1024, "image/png") >>),
      FormRequest("what does this show", ContextDict(EmptyDict), << >>,
                  << Upload("notes.txt", 1024, "text/plain") >>),
      FormRequest("what does this show", ContextDict(EmptyDict), << >>,
                  << Upload("clip.mp4", ChatbotBackend_init.max_file_size + 1, "video/mp4") >>),
      FormRequest("read this", ContextDict(EmptyDict), << >>,
                  << Upload("report.PDF", ChatbotBackend_init.max_file_size, "") >>),
      FormRequest("read this", ContextDict(EmptyDict), << >>, << Upload(".pdf", 10, "") >>),
      FormRequest("compare these", ContextDict(EmptyDict), << >>,
                  << Upload("report.pdf", 2048, "application/pdf"),
                     Upload("photo.png", 1024, "image/png") >>),
      FormRequest("I'm scared, look", ContextDict(EmptyDict), << >>,
                  << Upload("notes.txt", 1024, "text/plain"), Upload("", 10, "image/png"),
                     Upload("clip.mov", 2048, "") >>) }

\* what an exception of the model call can say
GatewayErrors ==
    { "Timeout of 60.0s exceeded",
      "Connection timeout: invalid response",
      "Request timeout",
      "401 API_KEY_INVALID",
      "429 Quota exceeded for requests per minute",
      "503 Service Unavailable",
      "File size exceeds the limit",
      "Internal error" }

GatewayOutcomes ==
    { Replied("Move to higher ground and stay there."), NoResponse, NoText }
        \cup { Raises(e) : e \in GatewayErrors }

PdfExtractions == { "ok", "fails", "no_library" }

\* datetime.now().isoformat(): the clock is not modelled, every timestamp is this one
Timestamp == "2025-01-01T00:00:00"

NoResponseYet == [ status |-> 0, body |-> EmptyDict ]

ChatStep(new) ==
    /\ chat' = new
    /\ UNCHANGED <<prompt_engine, visual_analyzer, classifyVars, assessVars, calls, prompt_call, historyVars>>

ChatAt(pc) == chat.pc = pc

\* line 572: a request arrives
ReceiveRequest ==
    /\ ChatAt("idle")
    /\ \E r \in ChatRequests :
          ChatStep([ pc |-> "parse", gemini_handler |-> chat.gemini_handler, request |-> r,
                     message |-> JsonNull, context |-> ContextOther(FALSE), preferences |-> << >>,
                     files_data |-> << >>, context_dict |-> EmptyDict,
                     input_method |-> "", session_id |-> "", context_used |-> FALSE,
                     has_files |-> FALSE, message_type |-> NotCalled,
                     specialized_prompt |-> NotCalled, response |-> NotCalled,
                     content_parts |-> << >>, model_outcome |-> ModelNotCalled,
                     exception |-> "",
                     result |-> EmptyDict, http |-> NoResponseYet ])

\* lines 576-609: the fields of the JSON body, or of the form with its uploads;
\* data.get on a body that is no object raises
ParseRequest ==
    /\ ChatAt("parse")
    /\ LET r == chat.request
       IN  IF r.is_json /\ ~r.body_is_object
           THEN ChatStep([chat EXCEPT !.pc = "endpoint_except",
                                      !.exception = "'NoneType' object has no attribute 'get'"])
           ELSE ChatStep([chat EXCEPT !.pc = "validate",
                                      !.message = r.message,
                                      !.context = r.context,
                                      !.preferences = r.preferences,
                                      !.files_data =
                                          IF r.is_json THEN r.files
                                          ELSE accepted_uploads(ChatbotBackend_init, r.uploads, 1)])

\* mutant: the message is tested without strip()
ValidateMessageUntrimmed ==
    /\ ChatAt("validate")
    /\ IF chat.message.json # "str"
       THEN ChatStep([chat EXCEPT !.pc = "endpoint_except",
                                  !.exception = "'NoneType' object has no attribute 'strip'"])
       ELSE IF chat.message.value = ""
       THEN ChatStep([chat EXCEPT !.pc = "done",
                                  !.http = [ status |-> 400,
                                             body |-> [ success |-> FALSE,
                                                        error |-> "Message is required" ] ]])
       ELSE ChatStep([chat EXCEPT !.pc = "process"])

\* lines 611-615: message.strip() raises on None; an empty message is
\* answered with 400
ValidateMessage ==
    /\ ChatAt("validate")
    /\ IF chat.message.json # "str"
       THEN ChatStep([chat EXCEPT !.pc = "endpoint_except",
                                  !.exception = "'NoneType' object has no attribute 'strip'"])
       ELSE IF Strip(chat.message.value) = ""
       THEN ChatStep([chat EXCEPT !.pc = "done",
                                  !.http = [ status |-> 400,
                                             body |-> [ success |-> FALSE,
                                                        error |-> "Message is required" ] ]])
       ELSE ChatStep([chat EXCEPT !.pc = "process"])

\* lines 507-516: process_chat_request is entered; context.get raises on a
\* context that is true and no dict
ProcessContext ==
    /\ ChatAt("process")
    /\ IF chat.context.kind = "truthy_other"
       THEN ChatStep([chat EXCEPT !.pc = "process_except",
                                  !.exception = "'str' object has no attribute 'get'"])
       ELSE LET context == chat.context.dict
            IN  ChatStep([chat EXCEPT !.pc = "classify",
                                      !.context_dict = context,
                                      !.input_method = Get(context, "inputMethod", "text"),
                                      !.session_id = Get(context, "sessionId", "unknown"),
                                      !.context_used =
                                          TruthyDict(Get(context, "previousContext", EmptyDict))])

\* lines 519-524
ClassifyRequest ==
    /\ ChatAt("classify")
    /\ LET has_files_now == Len(chat.files_data) > 0
           classified == analyze_message_type_of_files(prompt_engine, chat.message.value,
                                                       has_files_now, mime_types_of(chat.files_data))
       IN  IF classified.raised
           THEN ChatStep([chat EXCEPT !.pc = "process_except", !.has_files = has_files_now,
                                      !.exception = classified.error])
           ELSE ChatStep([chat EXCEPT !.pc = "prompt", !.has_files = has_files_now,
                                      !.message_type = classified.value])

\* lines 527-529
BuildPrompt ==
    /\ ChatAt("prompt")
    /\ ChatStep([chat EXCEPT !.pc = "gateway",
                             !.specialized_prompt =
                                 create_specialized_prompt(prompt_engine, chat.message.value,
                                                           chat.message_type, chat.context_dict,
                                                           chat.preferences)])

\* the parts generate_content is called with, << >> when it is not called
sent_to_model(self, specialized_prompt, file_data, mime_type, extraction) ==
    LET parts == content_parts(specialized_prompt, file_data, mime_type, extraction)
    IN  IF is_available(self) /\ ~parts.raised THEN parts.value ELSE << >>

\* lines 532-542: the first file goes to process_multimodal_request;
\* files[0]['data'] and files[0]['mime_type'] raise KeyError on a missing key
InvokeMultimodal ==
    /\ ChatAt("gateway")
    /\ chat.has_files /\ Len(chat.files_data) > 0
    /\ LET file == chat.files_data[1]
       IN  IF file.data.type = "missing"
           THEN ChatStep([chat EXCEPT !.pc = "process_except", !.exception = "'data'"])
           ELSE IF file.mime_type.json = "missing"
           THEN ChatStep([chat EXCEPT !.pc = "process_except", !.exception = "'mime_type'"])
           ELSE \E outcome \in GatewayOutcomes, extraction \in PdfExtractions :
                   ChatStep([chat EXCEPT
                       !.pc = "return",
                       !.content_parts = sent_to_model(chat.gemini_handler, chat.specialized_prompt,
                                                       file.data, file.mime_type, extraction),
                       !.model_outcome =
                           IF sent_to_model(chat.gemini_handler, chat.specialized_prompt,
                                            file.data, file.mime_type, extraction) # << >>
                           THEN outcome ELSE ModelNotCalled,
                       !.response = process_multimodal_request(chat.gemini_handler,
                                                               chat.specialized_prompt, file.data,
                                                               file.mime_type, extraction, outcome)])

\* lines 543-545
InvokeText ==
    /\ ChatAt("gateway")
    /\ ~(chat.has_files /\ Len(chat.files_data) > 0)
    /\ \E outcome \in GatewayOutcomes :
          ChatStep([chat EXCEPT
              !.pc = "return",
              !.content_parts = IF is_available(chat.gemini_handler)
                                THEN << [ text |-> chat.specialized_prompt ] >> ELSE << >>,
              !.model_outcome = IF is_available(chat.gemini_handler) THEN outcome ELSE ModelNotCalled,
              !.response = process_text_request(chat.gemini_handler, chat.specialized_prompt,
                                                outcome)])

\* lines 547-556
ReturnResult ==
    /\ ChatAt("return")
    /\ ChatStep([chat EXCEPT
           !.pc = "respond",
           !.result = [ success |-> TRUE, response |-> chat.response,
                        message_type |-> chat.message_type, input_method |-> chat.input_method,
                        session_id |-> chat.session_id, timestamp |-> Timestamp,
                        has_files |-> chat.has_files, context_used |-> chat.context_used ]])

\* mutant: the except branch logs the error and raises it again
ProcessExceptReraising ==
    /\ ChatAt("process_except")
    /\ ChatStep([chat EXCEPT !.pc = "endpoint_except"])

\* lines 558-565
ProcessExcept ==
    /\ ChatAt("process_except")
    /\ ChatStep([chat EXCEPT
           !.pc = "respond",
           !.result = [ success |-> FALSE, error |-> chat.exception,
                        response |-> chat_msg_processing_error, timestamp |-> Timestamp ]])

\* line 625
Respond ==
    /\ ChatAt("respond")
    /\ ChatStep([chat EXCEPT !.pc = "done", !.http = [ status |-> 200, body |-> chat.result ]])

\* lines 627-633
EndpointExcept ==
    /\ ChatAt("endpoint_except")
    /\ ChatStep([chat EXCEPT
           !.pc = "done",
           !.http = [ status |-> 500,
                      body |-> [ success |-> FALSE, error |-> "Internal server error",
                                 response |-> chat_msg_endpoint_error ] ]])

\* the response has gone out; the next request can arrive
FinishRequest ==
    /\ ChatAt("done")
    /\ ChatStep([ pc |-> "idle", gemini_handler |-> chat.gemini_handler ])

\* lines 636-655: /api/config puts a new handler in place of the old one
ConfigureApi ==
    /\ \E configured \in BOOLEAN :
          ChatStep([chat EXCEPT !.gemini_handler = GeminiAPIHandler_init(configured)])

InitChat ==
    /\ Constructed
    /\ NoClassifyCall
    /\ NoAssessCall
    /\ NoConcurrentCalls
    /\ NoHistoryCalls
    /\ NoPromptCall
    /\ \E configured \in BOOLEAN :
          chat = [ pc |-> "idle", gemini_handler |-> GeminiAPIHandler_init(configured) ]

NextChat ==
    \/ ReceiveRequest
    \/ ParseRequest
    \/ ValidateMessage
    \/ ProcessContext
    \/ ClassifyRequest
    \/ BuildPrompt
    \/ InvokeMultimodal
    \/ InvokeText
    \/ ReturnResult
    \/ ProcessExcept
    \/ Respond
    \/ EndpointExcept
    \/ FinishRequest
    \/ ConfigureApi

SpecChat == InitChat /\ [][NextChat]_vars

----------------------------------------------------------------------------
(* Concurrent calls. The Flask application serves requests on threads that  *)
(* share one ChatbotBackend (and so one DisasterPromptEngine) and one       *)
(* VisualDisasterAnalyzer. A call runs statement by statement; every        *)
(* statement reads the shared instance as it is when the statement runs,    *)
(* and the calls interleave at statement boundaries.                        *)

\* arguments of the analyze_message_type calls
ClassifyArgs ==
    { [ message |-> "I'm trapped and having a panic attack", has_files |-> FALSE, file_types |-> << >> ],
      [ message |-> "any news about the trapped workers", has_files |-> TRUE,
        file_types |-> << "text/plain" >> ],
      [ message |-> "Hello", has_files |-> TRUE, file_types |-> << "application/pdf", "image/png" >> ] }

\* arguments of the create_specialized_prompt calls
PromptArgs ==
    { [ user_message |-> "I'm trapped", message_type |-> "emergency_protocol",
        context |-> EmptyDict, preferences |-> << >> ],
      [ user_message |-> "any news", message_type |-> "unknown_type",
        context |-> [ sessionId |-> "s1",
                      previousContext |-> [ messageCount |-> 2, chatTitle |-> "Flood help" ] ],
        preferences |-> << << "responseStyle", "supportive" >> >> ] }

\* arguments of the analyze_image_description calls
AssessArgs ==
    { [ description |-> "water is trapped and rising rapidly and knee deep",
        user_context |-> "I'm scared" ],
      [ description |-> "Heavy smoke visible under classroom door, students by windows",
        user_context |-> "" ] }

Frame(c) == calls[c]

\* the call in slot c moves on: its frame is the only thing that changes
Continue(c, frame) ==
    /\ calls' = [calls EXCEPT ![c] = frame]
    /\ UNCHANGED <<prompt_engine, visual_analyzer, classifyVars, assessVars, prompt_call, chat, historyVars>>

\* the call in slot c goes to position pc with its locals updated
Goto(c, pc, locals) == Continue(c, [Frame(c) EXCEPT !.pc = pc, !.locals = locals])

\* the call in slot c returns a value
ReturnValue(c, value) == Continue(c, [Frame(c) EXCEPT !.pc = "done", !.result = value])

At(c, op, pc) == Frame(c).op = op /\ Frame(c).pc = pc

\* a thread enters analyze_message_type
InvokeClassify(c) ==
    /\ At(c, "idle", "idle")
    /\ \E a \in ClassifyArgs :
          Continue(c, [ op |-> "classify", pc |-> "lower", args |-> a,
                        locals |-> [ message_lower |-> "", is_information_request |-> FALSE ],
                        result |-> << >> ])

\* line 267
ClassifyLower(c) ==
    /\ At(c, "classify", "lower")
    /\ Goto(c, "files", [Frame(c).locals EXCEPT !.message_lower = Lower(Frame(c).args.message)])

\* lines 270-276
ClassifyFiles(c) ==
    /\ At(c, "classify", "files")
    /\ LET files_given == Frame(c).args.has_files /\ Len(Frame(c).args.file_types) > 0
           types == Frame(c).args.file_types
       IN  IF files_given /\ AnyFileType("image", types) THEN ReturnValue(c, "image_analysis")
           ELSE IF files_given /\ AnyFileType("video", types) THEN ReturnValue(c, "video_analysis")
           ELSE IF files_given /\ AnyFileType("pdf", types) THEN ReturnValue(c, "pdf_analysis")
           ELSE Goto(c, "psychological", Frame(c).locals)

\* mutant: the test consumes the shared keyword list (keywords.pop(0) in a loop
\* that stops at the first match)
ClassifyPsychologicalConsuming(c) ==
    /\ At(c, "classify", "psychological")
    /\ calls' = [calls EXCEPT ![c] =
                   IF AnyKeywordIn(prompt_engine.psychological_keywords, Frame(c).locals.message_lower)
                   THEN [Frame(c) EXCEPT !.pc = "done", !.result = "psychological_support"]
                   ELSE [Frame(c) EXCEPT !.pc = "information"]]
    /\ prompt_engine' = [prompt_engine EXCEPT !.psychological_keywords =
                            IF Len(@) > 0 THEN Tail(@) ELSE @]
    /\ UNCHANGED <<visual_analyzer, classifyVars, assessVars, prompt_call, chat, historyVars>>

\* lines 279-280
ClassifyPsychological(c) ==
    /\ At(c, "classify", "psychological")
    /\ IF AnyKeywordIn(prompt_engine.psychological_keywords, Frame(c).locals.message_lower)
       THEN ReturnValue(c, "psychological_support")
       ELSE Goto(c, "information", Frame(c).locals)

\* lines 283-288
ClassifyInformation(c) ==
    /\ At(c, "classify", "information")
    /\ LET is_information_request ==
               AnyKeywordIn(prompt_engine.information_keywords, Frame(c).locals.message_lower)
           has_disaster_content ==
               AnyKeywordIn(prompt_engine.disaster_keywords, Frame(c).locals.message_lower)
       IN  IF is_information_request /\ has_disaster_content
           THEN ReturnValue(c, "disaster_information")
           ELSE Goto(c, "emergency",
                     [Frame(c).locals EXCEPT !.is_information_request = is_information_request])

\* lines 291-299
ClassifyEmergency(c) ==
    /\ At(c, "classify", "emergency")
    /\ LET is_emergency ==
               AnyKeywordIn(prompt_engine.emergency_keywords, Frame(c).locals.message_lower)
       IN  IF is_emergency /\ ~Frame(c).locals.is_information_request
           THEN ReturnValue(c, "emergency_protocol")
           ELSE ReturnValue(c, "text_only")

\* a thread enters create_specialized_prompt
InvokePrompt(c) ==
    /\ At(c, "idle", "idle")
    /\ \E a \in PromptArgs :
          Continue(c, [ op |-> "prompt", pc |-> "template", args |-> a,
                        locals |-> [ template |-> "", context_info |-> "" ],
                        result |-> << >> ])

\* line 304
PromptTemplate(c) ==
    /\ At(c, "prompt", "template")
    /\ Goto(c, "context",
            [Frame(c).locals EXCEPT !.template = select_template(prompt_engine, Frame(c).args.message_type)])

\* lines 307-327
PromptContext(c) ==
    /\ At(c, "prompt", "context")
    /\ Goto(c, "format",
            [Frame(c).locals EXCEPT
                !.context_info = context_block(Frame(c).args.context, Frame(c).args.preferences)])

\* lines 329-330
PromptFormat(c) ==
    /\ At(c, "prompt", "format")
    /\ ReturnValue(c, prompt_engine.base_context \o Frame(c).locals.context_info \o "\n\n"
                          \o Format(Frame(c).locals.template, Frame(c).args.user_message))

\* a thread enters analyze_image_description
InvokeAssess(c) ==
    /\ At(c, "idle", "idle")
    /\ \E a \in AssessArgs :
          Continue(c, [ op |-> "assess", pc |-> "detect", args |-> a,
                        locals |-> [ disaster_type |-> "", severity_level |-> "",
                                     psychological_support |-> "", educational_guidance |-> "",
                                     safety_recommendation |-> "", immediate_actions |-> << >>,
                                     photo_analysis |-> << >> ],
                        result |-> << >> ])

\* line 108
AssessDetect(c) ==
    /\ At(c, "assess", "detect")
    /\ Goto(c, "severity",
            [Frame(c).locals EXCEPT
                !.disaster_type = detect_disaster_type(visual_analyzer, Frame(c).args.description)])

\* line 111
AssessSeverity(c) ==
    /\ At(c, "assess", "severity")
    /\ Goto(c, "support",
            [Frame(c).locals EXCEPT
                !.severity_level = assess_severity(Frame(c).args.description, Frame(c).locals.disaster_type)])

\* line 114
AssessSupport(c) ==
    /\ At(c, "assess", "support")
    /\ Goto(c, "guidance",
            [Frame(c).locals EXCEPT
                !.psychological_support =
                    generate_psychological_support(visual_analyzer, Frame(c).args.description,
                                                   Frame(c).args.user_context)])

\* line 117
AssessGuidance(c) ==
    /\ At(c, "assess", "guidance")
    /\ Goto(c, "recommendation",
            [Frame(c).locals EXCEPT
                !.educational_guidance =
                    generate_educational_guidance(Frame(c).locals.disaster_type,
                                                  Frame(c).args.description,
                                                  Frame(c).locals.severity_level)])

\* line 120
AssessRecommendation(c) ==
    /\ At(c, "assess", "recommendation")
    /\ Goto(c, "actions",
            [Frame(c).locals EXCEPT
                !.safety_recommendation =
                    create_safety_recommendation(Frame(c).locals.disaster_type,
                                                 Frame(c).locals.severity_level,
                                                 Frame(c).args.description)])

\* line 123
AssessActions(c) ==
    /\ At(c, "assess", "actions")
    /\ Goto(c, "photo",
            [Frame(c).locals EXCEPT
                !.immediate_actions =
                    generate_immediate_actions(Frame(c).locals.disaster_type,
                                               Frame(c).locals.severity_level,
                                               Frame(c).args.description)])

\* line 126
AssessPhoto(c) ==
    /\ At(c, "assess", "photo")
    /\ Goto(c, "confidence",
            [Frame(c).locals EXCEPT
                !.photo_analysis =
                    analyze_photo_details(Frame(c).args.description, Frame(c).locals.disaster_type)])

\* lines 129-140
AssessConfidence(c) ==
    /\ At(c, "assess", "confidence")
    /\ LET l == Frame(c).locals
       IN  ReturnValue(c,
               [ disaster_type |-> l.disaster_type,
                 severity_level |-> l.severity_level,
                 safety_recommendation |-> l.safety_recommendation,
                 psychological_support |-> l.psychological_support,
                 educational_guidance |-> l.educational_guidance,
                 immediate_actions |-> l.immediate_actions,
                 photo_analysis |-> l.photo_analysis,
                 confidence_score |->
                     calculate_confidence(visual_analyzer, Frame(c).args.description, l.disaster_type) ])

\* the caller has taken the result; the thread is free for the next request
Finish(c) ==
    /\ Frame(c).pc = "done"
    /\ Continue(c, IdleFrame)

InitConcurrent ==
    /\ Constructed
    /\ NoClassifyCall
    /\ NoAssessCall
    /\ NoConcurrentCalls
    /\ NoHistoryCalls
    /\ NoPromptCall
    /\ NoChatRequest

NextConcurrent ==
    \E c \in Calls :
        \/ InvokeClassify(c)
        \/ ClassifyLower(c)
        \/ ClassifyFiles(c)
        \/ ClassifyPsychological(c)
        \/ ClassifyInformation(c)
        \/ ClassifyEmergency(c)
        \/ InvokePrompt(c)
        \/ PromptTemplate(c)
        \/ PromptContext(c)
        \/ PromptFormat(c)
        \/ InvokeAssess(c)
        \/ AssessDetect(c)
        \/ AssessSeverity(c)
        \/ AssessSupport(c)
        \/ AssessGuidance(c)
        \/ AssessRecommendation(c)
        \/ AssessActions(c)
        \/ AssessPhoto(c)
        \/ AssessConfidence(c)
        \/ Finish(c)

SpecConcurrent == InitConcurrent /\ [][NextConcurrent]_vars

----------------------------------------------------------------------------
(* DisasterPsychologyAPI (src/student/disaster_psychology_api.py): the      *)
(* conversation store of the psychology API. No trained model is on disk,   *)
(* so slm_trainer is None and the fallback responses are used.              *)

\* d with d[key] = value
Put(d, key, value) ==
    [ k \in DOMAIN d \cup { key } |-> IF k = key THEN value ELSE d[k] ]

\* d without key
Without(d, key) == [ k \in DOMAIN d \ { key } |-> d[k] ]

\* lines 62-98
generate_fallback_response(user_input) ==
    LET user_input_lower == Lower(user_input)
    IN  IF AnyKeywordIn(<< "trapped", "emergency", "help", "stuck" >>, user_input_lower)
        THEN "[EMERGENCY] I understand you're in a critical situation. First, take a deep breath - panic reduces clear thinking. "
             \o (IF Contains("flood", user_input_lower) \/ Contains("water", user_input_lower)
                 THEN "[EDUCATION] If you're dealing with flood water: Do NOT attempt to walk through moving water. Even 6 inches can knock you down. Stay where you are, move to the highest point available, and signal for help."
                 ELSE IF Contains("fire", user_input_lower) \/ Contains("smoke", user_input_lower)
                 THEN "[EDUCATION] For fire/smoke: Stay low where air is cleaner, feel doors before opening (if hot, don't open), exit immediately if safe path available."
                 ELSE IF Contains("earthquake", user_input_lower) \/ Contains("building", user_input_lower)
                 THEN "[EDUCATION] If building is damaged: Look for cracks, avoid areas with potential falling debris, exit carefully if structure appears compromised."
                 ELSE "")
             \o " [CALM] You're being smart by asking for guidance. Contact emergency services (911) with your exact location."
        ELSE IF AnyKeywordIn(<< "panic", "scared", "afraid", "anxious" >>, user_input_lower)
        THEN "[CALM] I can hear that you're feeling overwhelmed right now, and that's completely understandable. Let's work on calming your mind first. "
             \o "[BREATHING] Try this with me: Breathe in slowly for 4 counts... hold for 4... breathe out for 6 counts. This helps activate your body's calm response. "
             \o "[GROUNDING] Now, name 3 things you can see around you, 2 things you can touch, and 1 sound you can hear. This helps bring you back to the present moment."
        ELSE IF AnyKeywordIn(<< "what should", "how to", "what do", "safety" >>, user_input_lower)
        THEN "[EDUCATION] For any emergency situation, follow these priorities: 1) Ensure your immediate safety, 2) Assess the situation calmly, 3) Contact emergency services if needed, 4) Follow evacuation procedures if necessary. "
             \o "For specific disasters: Floods - never walk through moving water; Fires - stay low and exit quickly; Earthquakes - drop, cover, and hold on during shaking."
        ELSE "[CALM] I'm here to help you through this situation. You're not alone, and it's good that you're reaching out for guidance. "
             \o "Can you tell me more about what you're experiencing? Are you in immediate danger, or do you need help with understanding safety procedures?"

\* lines 438-439 of visual_disaster_assessment.py: the numbered actions
RECURSIVE NumberedActions(_, _)
NumberedActions(actions, i) ==
    IF i > Len(actions) THEN ""
    ELSE "\n" \o ToString(i) \o ". " \o actions[i] \o NumberedActions(actions, i + 1)

\* VisualDisasterAnalyzer.generate_response_for_llm; the confidence, held in
\* hundredths, is formatted by {:.0%}
generate_response_for_llm(a, user_input) ==
    "[PHOTO_ANALYSIS] I can see this is a " \o a.disaster_type \o " situation with "
        \o a.severity_level \o " severity level."
    \o "\n\n" \o a.psychological_support
    \o "\n\n" \o a.educational_guidance
    \o "\n\n" \o "[EMERGENCY] " \o a.safety_recommendation
    \o "\n\n" \o "[IMMEDIATE_ACTIONS]"
    \o NumberedActions(a.immediate_actions, 1)
    \o "\n\n" \o "[CONFIDENCE] Assessment confidence: " \o ToString(a.confidence_score) \o "%"
    \o "\n\n" \o "Stay safe, and remember - you're not alone in this situation. Help is available."

\* lines 104-108: the response to a text, or the exception of .lower() on a
\* message that is no str
text_response(user_input) ==
    IF user_input.json # "str"
    THEN Raised("'NoneType' object has no attribute 'lower'")
    ELSE Value(generate_fallback_response(user_input.value))

\* lines 142-145: the assessment and the response built from it, or the
\* exception of .lower() on a description or context that is no str
image_response(self, image_description, image_context) ==
    IF image_description.json # "str" \/ image_context.json # "str"
    THEN Raised("'NoneType' object has no attribute 'lower'")
    ELSE LET a == analyze_image_description(self, image_description.value, image_context.value)
         IN  Value([ assessment |-> a,
                     llm_response |-> generate_response_for_llm(a, image_context.value) ])

\* lines 114-119 and 151-158: the entry a call appends
text_entry(user_input, response) ==
    [ timestamp |-> Timestamp, user_input |-> user_input.value, bot_response |-> response,
      type |-> "text_only" ]

image_entry(image_description, image_context, made) ==
    [ timestamp |-> Timestamp, user_context |-> image_context.value,
      image_description |-> image_description.value, assessment |-> made.assessment,
      bot_response |-> made.llm_response, type |-> "visual_assessment" ]

\* lines 121-127 and 160-173: what a call that stored its entry returns
text_success(response, session_id) ==
    [ success |-> TRUE, response |-> response, session_id |-> session_id,
      timestamp |-> Timestamp, response_type |-> "text_support" ]

image_success(made, session_id) ==
    [ success |-> TRUE, response |-> made.llm_response,
      assessment |-> [ disaster_type |-> made.assessment.disaster_type,
                       severity_level |-> made.assessment.severity_level,
                       safety_recommendation |-> made.assessment.safety_recommendation,
                       immediate_actions |-> made.assessment.immediate_actions,
                       confidence_score |-> made.assessment.confidence_score ],
      session_id |-> session_id, timestamp |-> Timestamp,
      response_type |-> "visual_assessment" ]

\* lines 129-135 and 175-181: what the except branch returns
text_failure(error) ==
    [ success |-> FALSE, error |-> error,
      fallback_response |-> "I'm having technical difficulties, but I want you to know that help is available. If this is an emergency, please contact 911 immediately." ]

image_failure(error) ==
    [ success |-> FALSE, error |-> error,
      fallback_response |-> "I'm having trouble analyzing the image, but please prioritize your safety. If you're in immediate danger, evacuate to a safe location and contact emergency services." ]

\* a reference no list has: the list a `[]` creates is a new object
NewList(self) ==
    CHOOSE r \in 0..Cardinality(DOMAIN self.lists) : r \notin DOMAIN self.lists

\* lines 111 and 148: session_id not in self.conversation_history
session_missing(self, session_id) == session_id \notin DOMAIN self.conversation_history

\* lines 112 and 149: self.conversation_history[session_id] = []
create_list(self, session_id) ==
    [ conversation_history |-> Put(self.conversation_history, session_id, NewList(self)),
      lists |-> Put(self.lists, NewList(self), << >>) ]

\* lines 114 and 151: list.append on the list found under the session id
append_entry(self, list, entry) ==
    [ self EXCEPT !.lists = Put(self.lists, list, Append(self.lists[list], entry)) ]

\* the lists that are stored under a session id or named by `keep`; any other
\* list is garbage
collected(self, keep) ==
    [ self EXCEPT !.lists =
        [ r \in { q \in DOMAIN self.lists :
                     q \in keep \/ \E s \in DOMAIN self.conversation_history :
                                       self.conversation_history[s] = q } |-> self.lists[r] ] ]

\* lines 110-119 and 147-158 run without interruption
store_entry(self, session_id, entry) ==
    LET created == IF session_missing(self, session_id)
                   THEN create_list(self, session_id) ELSE self
    IN  append_entry(created, created.conversation_history[session_id], entry)

\* DisasterPsychologyAPI.process_text_request, run without interruption: the
\* instance afterwards and the dict returned
api_process_text_request(self, user_input, session_id) ==
    LET response == text_response(user_input)
    IN  IF response.raised
        THEN [ self |-> self, result |-> text_failure(response.error) ]
        ELSE [ self |-> store_entry(self, session_id, text_entry(user_input, response.value)),
               result |-> text_success(response.value, session_id) ]

\* DisasterPsychologyAPI.process_image_request, run without interruption
api_process_image_request(self, analyzer, image_description, image_context, session_id) ==
    LET made == image_response(analyzer, image_description, image_context)
    IN  IF made.raised
        THEN [ self |-> self, result |-> image_failure(made.error) ]
        ELSE [ self |-> store_entry(self, session_id,
                                    image_entry(image_description, image_context, made.value)),
               result |-> image_success(made.value, session_id) ]

\* DisasterPsychologyAPI.get_conversation_history
get_conversation_history(self, session_id) ==
    IF session_id \in DOMAIN self.conversation_history
    THEN self.lists[self.conversation_history[session_id]]
    ELSE << >>

\* mutant: the history is emptied and its key kept
clear_conversation_keeping_key(self, session_id) ==
    IF session_id \in DOMAIN self.conversation_history
    THEN [ self |-> [ self EXCEPT !.lists = Put(self.lists, self.conversation_history[session_id],
                                                 << >>) ],
           returned |-> TRUE ]
    ELSE [ self |-> self, returned |-> FALSE ]

\* DisasterPsychologyAPI.clear_conversation: the instance afterwards and the
\* bool returned
clear_conversation(self, session_id) ==
    IF session_id \in DOMAIN self.conversation_history
    THEN [ self |-> collected([ self EXCEPT !.conversation_history =
                                    Without(self.conversation_history, session_id) ], {}),
           returned |-> TRUE ]
    ELSE [ self |-> self, returned |-> FALSE ]

----------------------------------------------------------------------------
(* Requests to the psychology API. The Flask application serves every       *)
(* request on a thread of its own (app.run, line 425) and all of them share  *)
(* the one instance `api` (line 195). SpecHistory runs the calls statement  *)
(* by statement, interleaved; SpecSession runs one call after the other.    *)

Sessions == { "default", "room-12" }

NoList == -1

TextCall(user_input, session_id) ==
    [ op |-> "text", session_id |-> session_id, user_input |-> user_input,
      image_description |-> JsonNull, user_context |-> JsonNull ]

ImageCall(image_description, image_context, session_id) ==
    [ op |-> "image", session_id |-> session_id, user_input |-> JsonNull,
      image_description |-> image_description, user_context |-> image_context ]

\* what /chat and /analyze-image pass on: a message or a description that is
\* null in the JSON body arrives as None
HistoryRequests ==
    { TextCall(JsonStr("I'm scared"), "default"),
      TextCall(JsonNull, "default"),
      ImageCall(JsonStr("the floor is wet"), JsonStr(""), "default"),
      ImageCall(JsonNull, JsonStr(""), "room-12"),
      TextCall(JsonStr("I'm trapped, water everywhere"), "room-12") }

\* the instance after an earlier request of the default session
EarlierEntry == text_entry(JsonStr("hello"), generate_fallback_response("hello"))

AfterEarlierRequest ==
    api_process_text_request(DisasterPsychologyAPI_init, JsonStr("hello"), "default").self

ThreadAt(t, pc) == threads[t].pc = pc

\* the lists the threads other than t are about to append to
HeldByOthers(t) ==
    { threads[u].held : u \in { v \in Threads \ { t } : threads[v].pc = "append" } }

ThreadStep(t, frame, self) ==
    /\ threads' = [ threads EXCEPT ![t] = frame ]
    /\ api' = self
    /\ UNCHANGED <<prompt_engine, visual_analyzer, classifyVars, assessVars, calls, prompt_call, chat, last_call>>

\* a request arrives and its handler calls process_text_request or
\* process_image_request
StartRequest(t) ==
    /\ ThreadAt(t, "idle")
    /\ \E r \in HistoryRequests :
          ThreadStep(t, [ op |-> r.op, pc |-> "respond", session_id |-> r.session_id,
                          user_input |-> r.user_input,
                          image_description |-> r.image_description,
                          user_context |-> r.user_context,
                          made |-> Raised(""), held |-> NoList, result |-> EmptyDict ], api)

\* lines 104-108
GenerateResponse(t) ==
    /\ ThreadAt(t, "respond")
    /\ threads[t].op = "text"
    /\ LET made == text_response(threads[t].user_input)
       IN  ThreadStep(t, [ threads[t] EXCEPT !.made = made,
                                             !.pc = IF made.raised THEN "except" ELSE "check" ],
                      api)

\* lines 142-145
AnalyzeImage(t) ==
    /\ ThreadAt(t, "respond")
    /\ threads[t].op = "image"
    /\ LET made == image_response(visual_analyzer, threads[t].image_description,
                                  threads[t].user_context)
       IN  ThreadStep(t, [ threads[t] EXCEPT !.made = made,
                                             !.pc = IF made.raised THEN "except" ELSE "check" ],
                      api)

\* lines 111 and 148: the test of the if statement
CheckSession(t) ==
    /\ ThreadAt(t, "check")
    /\ ThreadStep(t, [ threads[t] EXCEPT
                         !.pc = IF session_missing(api, threads[t].session_id)
                                THEN "create" ELSE "lookup" ],
                  api)

\* lines 112 and 149: the assignment of a new list, whatever is stored by now
CreateList(t) ==
    /\ ThreadAt(t, "create")
    /\ ThreadStep(t, [ threads[t] EXCEPT !.pc = "lookup" ],
                  collected(create_list(api, threads[t].session_id), HeldByOthers(t)))

\* lines 114 and 151: self.conversation_history[session_id] is evaluated
\* before the entry is built and appended
LookupList(t) ==
    /\ ThreadAt(t, "lookup")
    /\ IF session_missing(api, threads[t].session_id)
       THEN ThreadStep(t, [ threads[t] EXCEPT !.pc = "except",
                                              !.made = Raised(threads[t].session_id) ], api)
       ELSE ThreadStep(t, [ threads[t] EXCEPT
                              !.pc = "append",
                              !.held = api.conversation_history[threads[t].session_id] ], api)

\* lines 114-119 and 151-158: the entry is appended to the list found
AppendEntry(t) ==
    /\ ThreadAt(t, "append")
    /\ LET frame == threads[t]
           entry == IF frame.op = "text"
                    THEN text_entry(frame.user_input, frame.made.value)
                    ELSE image_entry(frame.image_description, frame.user_context,
                                     frame.made.value)
       IN  ThreadStep(t, [ frame EXCEPT !.pc = "return", !.held = NoList ],
                      collected(append_entry(api, frame.held, entry), HeldByOthers(t)))

\* lines 121-127 and 160-173
ThreadReturn(t) ==
    /\ ThreadAt(t, "return")
    /\ LET frame == threads[t]
       IN  ThreadStep(t, [ frame EXCEPT
                             !.pc = "done",
                             !.result = IF frame.op = "text"
                                        THEN text_success(frame.made.value, frame.session_id)
                                        ELSE image_success(frame.made.value, frame.session_id) ],
                      api)

\* lines 129-135 and 175-181
ThreadExcept(t) ==
    /\ ThreadAt(t, "except")
    /\ LET frame == threads[t]
       IN  ThreadStep(t, [ frame EXCEPT
                             !.pc = "done",
                             !.result = IF frame.op = "text"
                                        THEN text_failure(frame.made.error)
                                        ELSE image_failure(frame.made.error) ],
                      api)

InitHistory ==
    /\ Constructed
    /\ NoClassifyCall
    /\ NoAssessCall
    /\ NoConcurrentCalls
    /\ NoPromptCall
    /\ NoChatRequest
    /\ api \in { DisasterPsychologyAPI_init, AfterEarlierRequest }
    /\ threads = [ t \in Threads |-> IdleThread ]
    /\ last_call = NoCall

NextHistory ==
    \E t \in Threads :
        \/ StartRequest(t)
        \/ GenerateResponse(t)
        \/ AnalyzeImage(t)
        \/ CheckSession(t)
        \/ CreateList(t)
        \/ LookupList(t)
        \/ AppendEntry(t)
        \/ ThreadReturn(t)
        \/ ThreadExcept(t)

SpecHistory == InitHistory /\ [][NextHistory]_vars

\* one call after the other: the whole call is one step

SessionStep(call, self) ==
    /\ last_call' = call
    /\ api' = self
    /\ UNCHANGED <<prompt_engine, visual_analyzer, classifyVars, assessVars, calls, prompt_call, chat, threads>>

\* a session's history has room for another entry
HasRoom(session_id) == Len(get_conversation_history(api, session_id)) < MaxHistory

\* POST /chat
ProcessTextRequest ==
    \E r \in { q \in HistoryRequests : q.op = "text" } :
        /\ HasRoom(r.session_id)
        /\ LET done == api_process_text_request(api, r.user_input, r.session_id)
           IN  SessionStep([ op |-> "text", session_id |-> r.session_id, before |-> api,
                             result |-> done.result ], done.self)

\* POST /analyze-image
ProcessImageRequest ==
    \E r \in { q \in HistoryRequests : q.op = "image" } :
        /\ HasRoom(r.session_id)
        /\ LET done == api_process_image_request(api, visual_analyzer, r.image_description,
                                                 r.user_context, r.session_id)
           IN  SessionStep([ op |-> "image", session_id |-> r.session_id, before |-> api,
                             result |-> done.result ], done.self)

\* GET /history/<session_id>
GetConversationHistory ==
    \E s \in Sessions :
        SessionStep([ op |-> "get", session_id |-> s, before |-> api,
                      history |-> get_conversation_history(api, s) ], api)

\* DELETE /clear/<session_id>
ClearConversation ==
    \E s \in Sessions :
        LET done == clear_conversation(api, s)
        IN  SessionStep([ op |-> "clear", session_id |-> s, before |-> api,
                          cleared |-> done.returned ], done.self)

InitSession ==
    /\ Constructed
    /\ NoClassifyCall
    /\ NoAssessCall
    /\ NoConcurrentCalls
    /\ NoPromptCall
    /\ NoChatRequest
    /\ NoHistoryCalls

NextSession ==
    \/ ProcessTextRequest
    \/ ProcessImageRequest
    \/ GetConversationHistory
    \/ ClearConversation

SpecSession == InitSession /\ [][NextSession]_vars

----------------------------------------------------------------------------
(* What the claims speak of: the keyword classes of a message and the      *)
(* categories of its attachments, stated independently of the call.        *)

\* the four keyword classes of spec.md section 4.1, over the lowercased text
KeywordClasses(m) ==
    LET lowered == Lower(m)
    IN  [ psychological |-> AnyKeywordIn(DisasterPromptEngine_init.psychological_keywords, lowered),
          information   |-> AnyKeywordIn(DisasterPromptEngine_init.information_keywords, lowered),
          disaster      |-> AnyKeywordIn(DisasterPromptEngine_init.disaster_keywords, lowered),
          emergency     |-> AnyKeywordIn(DisasterPromptEngine_init.emergency_keywords, lowered) ]

\* the classes of every input message, computed once
MessageClasses == [ m \in Messages |-> KeywordClasses(m) ]

Classified == message_type # NotCalled

\* hasAttachments and an attachment of the category is among the MIME types
Attached(category) ==
    has_files /\ \E i \in 1..Len(file_types) : Contains(category, file_types[i])

AttachmentRuleMatched == Attached("image") \/ Attached("video") \/ Attached("pdf")

\* C1: with attachments, an image among them gives image_analysis whatever the
\* text holds; no image but a video gives video_analysis; neither but a pdf
\* gives pdf_analysis.
C1_AttachmentPrecedence ==
    Classified =>
        /\ Attached("image") => message_type = "image_analysis"
        /\ (~Attached("image") /\ Attached("video")) => message_type = "video_analysis"
        /\ (~Attached("image") /\ ~Attached("video") /\ Attached("pdf"))
               => message_type = "pdf_analysis"

\* an image sent with a text that holds psychological, emergency, information
\* and disaster keywords at once
C1_Witness ==
    /\ message_type = "image_analysis"
    /\ Attached("image")
    /\ MessageClasses[message].psychological
    /\ MessageClasses[message].emergency
    /\ MessageClasses[message].information
    /\ MessageClasses[message].disaster

NoAttachment == ~has_files /\ file_types = << >>

\* the case of C2: no attachment, an emergency and an information keyword, no
\* psychological keyword
C2_Case ==
    /\ Classified
    /\ NoAttachment
    /\ MessageClasses[message].emergency
    /\ MessageClasses[message].information
    /\ ~MessageClasses[message].psychological

\* C2 as stated: such a message is classified disaster_information whether or
\* not a disaster-topic keyword is present.
C2_AsStated == C2_Case => message_type = "disaster_information"

\* C2 amended: such a message is classified disaster_information when it also
\* holds a disaster-topic keyword and text_only (greeting_or_general) when it
\* does not; it is never classified emergency_protocol.
C2_InformationOverEmergency ==
    C2_Case =>
        /\ message_type =
               (IF MessageClasses[message].disaster THEN "disaster_information" ELSE "text_only")
        /\ message_type # "emergency_protocol"

\* the message of spec.md section 8, classified
C2_Witness ==
    /\ C2_Case
    /\ message = "any news about the trapped workers"
    /\ ~MessageClasses[message].disaster
    /\ message_type = "text_only"

\* C3: without a matching attachment, a psychological keyword gives
\* psychological_support whatever other keywords the message holds.
C3_PsychologicalPrecedence ==
    (Classified /\ ~AttachmentRuleMatched /\ MessageClasses[message].psychological)
        => message_type = "psychological_support"

C3_Witness ==
    /\ message = "I'm trapped and having a panic attack"
    /\ ~AttachmentRuleMatched
    /\ MessageClasses[message].emergency
    /\ message_type = "psychological_support"

\* C4: emergency_protocol is returned exactly when no attachment rule matched,
\* there is no psychological keyword, there is an emergency keyword and there
\* is no information keyword.
C4_EmergencyExactly ==
    Classified =>
        ( message_type = "emergency_protocol"
            <=> /\ ~AttachmentRuleMatched
                /\ ~MessageClasses[message].psychological
                /\ MessageClasses[message].emergency
                /\ ~MessageClasses[message].information )

\* an emergency message that is kept out of the protocol by an information
\* keyword alone (no disaster keyword)
C4_Witness ==
    /\ Classified
    /\ ~AttachmentRuleMatched
    /\ MessageClasses[message].emergency
    /\ MessageClasses[message].information
    /\ ~MessageClasses[message].disaster
    /\ ~MessageClasses[message].psychological
    /\ has_files
    /\ message_type # "emergency_protocol"

\* the six-step resolution order of spec.md section 4.1, with the code's labels
\* (text_only for greeting_or_general, disaster_information for
\* disaster_information_request)
ResolutionOrder(hasAttachments, image, video, pdf, psychological, information, disaster, emergency) ==
    IF hasAttachments /\ image THEN "image_analysis"
    ELSE IF hasAttachments /\ video THEN "video_analysis"
    ELSE IF hasAttachments /\ pdf THEN "pdf_analysis"
    ELSE IF psychological THEN "psychological_support"
    ELSE IF information /\ disaster THEN "disaster_information"
    ELSE IF emergency /\ ~information THEN "emergency_protocol"
    ELSE "text_only"

CategoryListed(category) == \E i \in 1..Len(file_types) : Contains(category, file_types[i])

\* C5: for every combination of the eight inputs the label is the one the
\* six-step first-match-wins order gives.
C5_ResolutionOrder ==
    Classified =>
        message_type = ResolutionOrder(has_files,
                                       CategoryListed("image"),
                                       CategoryListed("video"),
                                       CategoryListed("pdf"),
                                       MessageClasses[message].psychological,
                                       MessageClasses[message].information,
                                       MessageClasses[message].disaster,
                                       MessageClasses[message].emergency)

\* all three categories attached, the image last, with all four keyword classes
C5_Witness ==
    /\ has_files
    /\ file_types = << "application/pdf", "video/mp4", "image/png" >>
    /\ MessageClasses[message].psychological
    /\ MessageClasses[message].information
    /\ MessageClasses[message].disaster
    /\ MessageClasses[message].emergency
    /\ message_type = "image_analysis"

\* the sixteen keyword-class combinations and the eight attachment-category
\* combinations all occur among the inputs
InputsCoverEveryCombination ==
    /\ \A p, i, d, e \in BOOLEAN :
          \E m \in Messages :
             MessageClasses[m] = [psychological |-> p, information |-> i,
                                  disaster |-> d, emergency |-> e]
    /\ \A im, vi, pd \in BOOLEAN :
          \E t \in FileTypeLists :
             /\ im <=> \E k \in 1..Len(t) : Contains("image", t[k])
             /\ vi <=> \E k \in 1..Len(t) : Contains("video", t[k])
             /\ pd <=> \E k \in 1..Len(t) : Contains("pdf", t[k])

----------------------------------------------------------------------------
(* Claims about concurrent calls *)

\* what a call with these arguments returns when it runs alone on freshly
\* constructed instances
ClassifyAlone ==
    [ a \in ClassifyArgs |->
        analyze_message_type(DisasterPromptEngine_init, a.message, a.has_files, a.file_types) ]

PromptAlone ==
    [ a \in PromptArgs |->
        create_specialized_prompt(DisasterPromptEngine_init, a.user_message, a.message_type,
                                  a.context, a.preferences) ]

AssessAlone ==
    [ a \in AssessArgs |->
        analyze_image_description(VisualDisasterAnalyzer_init, a.description, a.user_context) ]

Returned(c) == Frame(c).pc = "done"

ReturnedAsAlone(c) ==
    CASE Frame(c).op = "classify" -> Frame(c).result = ClassifyAlone[Frame(c).args]
      [] Frame(c).op = "prompt" -> Frame(c).result = PromptAlone[Frame(c).args]
      [] Frame(c).op = "assess" -> Frame(c).result = AssessAlone[Frame(c).args]

InProgress(c) == Frame(c).pc \notin {"idle", "done"}

\* C6: classify, buildPrompt and assess are pure. Whatever calls ran before and
\* whatever calls run at the same time, in any interleaving, a call returns
\* what the same call returns alone, two calls with the same arguments return
\* the same result, and the keyword lexicons, the prompt templates and the
\* analyzer's pattern tables stay as constructed.
C6_PureUnderInterleaving ==
    /\ prompt_engine = DisasterPromptEngine_init
    /\ visual_analyzer = VisualDisasterAnalyzer_init
    /\ \A c \in Calls : Returned(c) => ReturnedAsAlone(c)
    /\ \A c, d \in Calls :
          (Returned(c) /\ Returned(d) /\ Frame(c).op = Frame(d).op /\ Frame(c).args = Frame(d).args)
             => Frame(c).result = Frame(d).result

\* a call has returned while another call is part-way through its statements,
\* and two calls of the same operation with the same arguments overlap
C6_Witness ==
    \E c, d \in Calls :
        /\ c # d
        /\ Returned(c)
        /\ InProgress(d)
        /\ Frame(c).op = Frame(d).op
        /\ Frame(c).args = Frame(d).args
        /\ Frame(c).op = "classify"
        /\ Frame(d).pc = "information"

----------------------------------------------------------------------------
(* Claims about the assessment engine *)

Assessed == assessment # NoAssessment

\* C7: the confidence score (in hundredths) is at least 0.5, at most 0.95 and
\* so strictly below 1.0, for every description and every detected type.
C7_ConfidenceBound ==
    Assessed =>
        /\ assessment.confidence_score >= 50
        /\ assessment.confidence_score <= 95
        /\ assessment.confidence_score < 100

\* a description of more than 20 words with three keywords of its type: the
\* sum 0.5 + 0.2 + 0.3 is cut to 0.95
C7_Witness ==
    /\ Assessed
    /\ WordCount(description) > 20
    /\ KeywordMatches(PatternKeywords(VisualDisasterAnalyzer_init, assessment.disaster_type),
                      Lower(description)) >= 3
    /\ assessment.confidence_score = 95

\* C8: the first two immediate actions are the two universal actions, in
\* order, and every disaster-specific action comes after them.
C8_UniversalActionsFirst ==
    Assessed =>
        LET actions == assessment.immediate_actions
        IN  /\ Len(actions) >= 2
            /\ actions[1] = "Ensure your immediate personal safety"
            /\ actions[2] = "Contact emergency services if not already done"
            /\ SubSeq(actions, 3, Len(actions))
                   = specific_actions(assessment.disaster_type, assessment.severity_level)
            /\ \A i \in 3..Len(actions) :
                   actions[i] \notin { "Ensure your immediate personal safety",
                                       "Contact emergency services if not already done" }

\* a flood of high severity: four specific actions follow the universal two
C8_Witness ==
    /\ Assessed
    /\ assessment.disaster_type = "flood"
    /\ assessment.severity_level = "high"
    /\ Len(assessment.immediate_actions) = 6
    /\ assessment.immediate_actions[3] = "Do NOT enter or attempt to cross flood water"

\* the severity tiers whose signs a description holds
SeveritySigns(d) ==
    [ critical |-> AnyKeywordIn(critical_signs, Lower(d)),
      high     |-> AnyKeywordIn(high_signs, Lower(d)),
      moderate |-> AnyKeywordIn(moderate_signs, Lower(d)) ]

\* the signs of every input description, computed once
DescriptionSigns == [ d \in Descriptions |-> SeveritySigns(d) ]

\* C9: the first matching tier decides, in the order critical, high, moderate:
\* a critical sign gives critical even with high or moderate signs present, a
\* high sign without a critical one gives high, no sign at all gives low.
C9_SeverityTieBreak ==
    Assessed =>
        LET signs == DescriptionSigns[description]
        IN  /\ signs.critical => assessment.severity_level = "critical"
            /\ (signs.high /\ ~signs.critical) => assessment.severity_level = "high"
            /\ (~signs.critical /\ ~signs.high /\ ~signs.moderate)
                   => assessment.severity_level = "low"

\* the description of spec.md section 8: critical and high signs together
C9_Witness ==
    /\ Assessed
    /\ description = "water is trapped and rising rapidly and knee deep"
    /\ DescriptionSigns[description].critical
    /\ DescriptionSigns[description].high
    /\ assessment.severity_level = "critical"

\* C10: the round-trip scenario of spec.md section 8 is assessed as a flood of
\* high or critical severity whose immediate actions tell the user not to enter
\* the flood water.
C10_RoundTripScenario ==
    ( /\ Assessed
      /\ description = "Flood water knee-deep, moving slowly, debris floating"
      /\ user_context = "need to reach exit" )
    =>  /\ assessment.disaster_type = "flood"
        /\ assessment.severity_level \in {"high", "critical"}
        /\ \E i \in 1..Len(assessment.immediate_actions) :
               Contains("Do NOT enter", assessment.immediate_actions[i])

\* the types of disaster_patterns in the order the code iterates them
TypeOrder == << "flood", "fire", "earthquake", "structural" >>

\* how many keywords of each type's lexicon a description holds
LexiconHits(d) ==
    [ i \in 1..Len(TypeOrder) |->
          KeywordMatches(PatternKeywords(VisualDisasterAnalyzer_init, TypeOrder[i]), Lower(d)) ]

\* the single words the detection falls back to when no lexicon reaches two hits
WaterWords == << "water", "flood", "wet", "submerged" >>
FireWords == << "smoke", "fire", "burn", "flame" >>
StructuralWords == << "crack", "collapse", "damage", "broken" >>

HeuristicHits(d) ==
    [ water      |-> AnyKeywordIn(WaterWords, Lower(d)),
      fire       |-> AnyKeywordIn(FireWords, Lower(d)),
      structural |-> AnyKeywordIn(StructuralWords, Lower(d)) ]

\* the words the psychological support looks for
EmotionWords ==
    << "panic", "scared", "terrified", "afraid",
       "worried", "anxious", "nervous", "uncertain",
       "confused", "don't know", "not sure", "unclear" >>

\* the hits of every input description, computed once
DescriptionHits == [ d \in Descriptions |-> LexiconHits(d) ]
DescriptionHeuristics == [ d \in Descriptions |-> HeuristicHits(d) ]
DescriptionWords == [ d \in Descriptions |-> WordCount(d) ]

\* a description that holds no keyword of any lexicon, no fallback word and no
\* severity sign
MinimalDescription ==
    /\ \A i \in 1..Len(TypeOrder) : DescriptionHits[description][i] = 0
    /\ ~DescriptionHeuristics[description].water
    /\ ~DescriptionHeuristics[description].fire
    /\ ~DescriptionHeuristics[description].structural
    /\ ~DescriptionSigns[description].critical
    /\ ~DescriptionSigns[description].high
    /\ ~DescriptionSigns[description].moderate

\* the assessment made of safe defaults only
WordBonus == IF DescriptionWords[description] > 20 THEN 20
             ELSE IF DescriptionWords[description] > 10 THEN 10 ELSE 0

SafeDefaults ==
    /\ assessment.disaster_type = "general_emergency"
    /\ assessment.severity_level = "low"
    /\ assessment.psychological_support
           = "[CALM] You're handling this situation well by carefully assessing before acting. That shows excellent judgment and self-control."
    /\ assessment.educational_guidance
           = "[EDUCATION] General emergency protocol: 1) Assess immediate dangers, 2) Secure your safety first, 3) Contact emergency services, 4) Follow evacuation procedures if necessary."
    /\ assessment.immediate_actions
           = << "Ensure your immediate personal safety",
                "Contact emergency services if not already done" >>
    /\ assessment.confidence_score = 50 + WordBonus

\* C17 as stated: a minimal description with a context that holds no emotion
\* word is assessed with the safe defaults only.
C17_AsStated ==
    ( /\ Assessed
      /\ MinimalDescription
      /\ ~AnyKeywordIn(EmotionWords, Lower(user_context)) )
    => SafeDefaults

\* C17: a minimal description (the empty one included), when the lowercased
\* description and context joined hold no emotion word, is assessed as
\* general_emergency, low, with the generic validating message, the generic
\* four-step guidance, exactly the two universal actions and confidence 0.5
\* plus only the word-count bonus.
C17_MinimalInput ==
    ( /\ Assessed
      /\ MinimalDescription
      /\ ~AnyKeywordIn(EmotionWords, Lower(description) \o Lower(user_context)) )
    => SafeDefaults

\* a description of thirteen words that matches nothing: confidence 0.6
C17_Witness ==
    /\ Assessed
    /\ MinimalDescription
    /\ ~AnyKeywordIn(EmotionWords, Lower(description) \o Lower(user_context))
    /\ DescriptionWords[description] > 10
    /\ user_context = "need to reach exit"
    /\ assessment.disaster_type = "general_emergency"
    /\ assessment.confidence_score = 60

\* the positions of TypeOrder whose lexicon has two hits or more
ReachedTypes(d) == { i \in 1..Len(TypeOrder) : DescriptionHits[d][i] >= 2 }

\* C18: the detected type is the first of flood, fire, earthquake, structural
\* whose lexicon has at least 2 hits, whatever the hits of a later type; only
\* when none has 2 hits the single words decide, water words first, then fire
\* words, then structural words, and general_emergency when none matches.
C18_FirstTypeWins ==
    Assessed =>
        LET reached == ReachedTypes(description)
            words == DescriptionHeuristics[description]
        IN  /\ \A i \in reached :
                   (\A j \in reached : i <= j) => assessment.disaster_type = TypeOrder[i]
            /\ (reached = {} /\ words.water) => assessment.disaster_type = "flood"
            /\ (reached = {} /\ ~words.water /\ words.fire) => assessment.disaster_type = "fire"
            /\ (reached = {} /\ ~words.water /\ ~words.fire /\ words.structural)
                   => assessment.disaster_type = "structural"
            /\ (reached = {} /\ ~words.water /\ ~words.fire /\ ~words.structural)
                   => assessment.disaster_type = "general_emergency"
            /\ assessment.disaster_type = "earthquake" => 3 \in reached

\* two flood keywords and three fire keywords: flood, the earlier type, wins
C18_Witness ==
    /\ Assessed
    /\ DescriptionHits[description][1] = 2
    /\ DescriptionHits[description][2] = 3
    /\ assessment.disaster_type = "flood"

\* C19 as stated: every type other than flood, fire and earthquake gets the
\* generic four-step protocol text.
C19_AsStated ==
    ( /\ Assessed
      /\ assessment.disaster_type \notin {"flood", "fire", "earthquake"} )
    => assessment.educational_guidance
           = "[EDUCATION] General emergency protocol: 1) Assess immediate dangers, 2) Secure your safety first, 3) Contact emergency services, 4) Follow evacuation procedures if necessary."

\* C19: flood and fire have a generator of their own, earthquake and structural
\* share the earthquake generator, and only general_emergency gets the generic
\* four-step protocol text.
C19_GuidanceDispatch ==
    Assessed =>
        LET guidance == assessment.educational_guidance
        IN  /\ assessment.disaster_type = "flood"
                   => StartsWith(guidance, "[EDUCATION] FLOOD SAFETY: ")
            /\ assessment.disaster_type = "fire"
                   => StartsWith(guidance, "[EDUCATION] FIRE SAFETY: ")
            /\ assessment.disaster_type \in {"earthquake", "structural"}
                   => /\ StartsWith(guidance, "[EDUCATION] EARTHQUAKE/STRUCTURAL SAFETY: ")
                      /\ Contains("Be prepared for aftershocks", guidance)
            /\ (assessment.disaster_type = "general_emergency")
                   <=> (guidance = "[EDUCATION] General emergency protocol: 1) Assess immediate dangers, 2) Secure your safety first, 3) Contact emergency services, 4) Follow evacuation procedures if necessary.")

\* a structural assessment whose guidance is the earthquake generator's
C19_Witness ==
    /\ Assessed
    /\ assessment.disaster_type = "structural"
    /\ StartsWith(assessment.educational_guidance, "[EDUCATION] EARTHQUAKE/STRUCTURAL SAFETY: ")

----------------------------------------------------------------------------
(* Claims about the prompt builder *)

PromptBuilt == prompt_call.specialized_prompt # NotCalled

\* how often s starts in t (at every index when s is empty)
Occurrences(s, t) ==
    Cardinality({ i \in 1..(Len(t) - Len(s) + 1) : SubSeq(t, i, i + Len(s) - 1) = s })

\* the fixed text of the selected template before and after its slot
SlotStart(template) == FirstPlaceholder(template, 1)
BeforeSlot(template) == SubSeq(template, 1, SlotStart(template) - 1)
AfterSlot(template) == SubSeq(template, SlotStart(template) + Len(Placeholder), Len(template))

\* what precedes the message in the prompt of the call: the persona preamble,
\* the context and preferences block, a blank line, the template up to its slot
PromptPrefix ==
    DisasterPromptEngine_init.base_context
        \o context_block(prompt_call.context, prompt_call.preferences) \o "\n\n"
        \o BeforeSlot(select_template(DisasterPromptEngine_init, prompt_call.message_type))

PromptSuffix == AfterSlot(select_template(DisasterPromptEngine_init, prompt_call.message_type))

\* C11 as stated: the prompt contains the literal user message exactly once.
C11_ExactlyOnce ==
    PromptBuilt => Occurrences(prompt_call.user_message, prompt_call.specialized_prompt) = 1

\* C11, amended: the prompt is the text before the slot, the literal message
\* and the text after the slot, so the message stands at the slot of the
\* selected template; the prompt holds it exactly once if and only if the
\* message meets the text before it only at its end and the text after it only
\* at its start (so not a second time in the preamble, the template, the
\* context block or the preferences).
C11_MessageAtSlot ==
    PromptBuilt =>
        LET msg == prompt_call.user_message
            prompt == prompt_call.specialized_prompt
        IN  /\ prompt = PromptPrefix \o msg \o PromptSuffix
            /\ Occurrences(Placeholder, PromptPrefix \o PromptSuffix) = 0
            /\ Occurrences(msg, prompt) >= 1
            /\ Occurrences(msg, prompt) = 1
                  <=> /\ Occurrences(msg, PromptPrefix \o msg) = 1
                      /\ Occurrences(msg, msg \o PromptSuffix) = 1

\* a message the fixed texts do not hold, in the emergency template with a
\* context and preferences: once, at the slot
C11_Witness ==
    /\ PromptBuilt
    /\ prompt_call.user_message = "I'm trapped in sector 7"
    /\ prompt_call.message_type = "emergency_protocol"
    /\ TruthyDict(prompt_call.context)
    /\ Len(prompt_call.preferences) > 0
    /\ Occurrences(prompt_call.user_message, prompt_call.specialized_prompt) = 1

----------------------------------------------------------------------------
(* Claims about the chat request *)

InRequest == chat.pc # "idle"

Answered == chat.pc = "done"

\* the message of the request is a str that is empty once trimmed
BlankMessage ==
    /\ InRequest
    /\ ~(chat.request.is_json /\ ~chat.request.body_is_object)
    /\ chat.request.message.json = "str"
    /\ Strip(chat.request.message.value) = ""

\* neither the classifier nor the prompt builder nor the gateway has been invoked
NothingInvoked ==
    /\ chat.message_type = NotCalled
    /\ chat.specialized_prompt = NotCalled
    /\ chat.response = NotCalled
    /\ chat.content_parts = << >>
    /\ chat.model_outcome = ModelNotCalled

InsideProcess == { "process", "classify", "prompt", "gateway", "return", "process_except" }

\* C12: a request whose message is empty after trimming is answered 400
\* 'Message is required' with the classifier, the prompt builder and the gateway
\* never invoked; the classifier is reached with a non-empty message only.
C12_EmptyMessageRejected ==
    /\ BlankMessage =>
          /\ NothingInvoked
          /\ chat.pc \in { "parse", "validate", "done" }
          /\ Answered => /\ chat.http.status = 400
                         /\ chat.http.body = [ success |-> FALSE, error |-> "Message is required" ]
    /\ (InRequest /\ (chat.pc \in InsideProcess \/ chat.message_type # NotCalled)) =>
          /\ chat.message.json = "str"
          /\ Strip(chat.message.value) # ""

\* a form post with a blank, non-empty message and an accepted upload is
\* answered 400
C12_Witness ==
    /\ Answered
    /\ BlankMessage
    /\ chat.request.message.value # ""
    /\ Len(chat.files_data) > 0
    /\ chat.http.status = 400

\* a text tells the user to contact the emergency services
HasEmergencyReminder(text) ==
    \/ Contains("emergency services", Lower(text))
    \/ Contains("911", text)

\* the gateway was invoked and what it returned is not a reply of the model
GatewayFailed ==
    /\ chat.response # NotCalled
    /\ chat.model_outcome.kind # "text"

\* C13: every failure path of a chat request (a gateway failure of any kind,
\* an exception caught in process_chat_request or in chat_endpoint) returns a
\* response that reminds the user to contact the emergency services.
C13_EveryFailureReminds ==
    Answered =>
        /\ GatewayFailed => HasEmergencyReminder(chat.response)
        /\ (chat.http.status \in { 200, 500 } /\ ~chat.http.body.success)
              => HasEmergencyReminder(chat.http.body.response)

\* C14: a failed model call gives the caller a failure value (success false,
\* with the error kind); success is true only when the model produced reply
\* text.
C14_FailureDistinguishable ==
    (Answered /\ chat.http.status = 200) =>
        /\ chat.http.body.success => chat.model_outcome.kind = "text"
        /\ GatewayFailed => (~chat.http.body.success /\ "error" \in DOMAIN chat.http.body)

\* an upload of the form post is over the size limit or has an extension that
\* is not allowed
RefusedUpload ==
    /\ InRequest
    /\ ~chat.request.is_json
    /\ \E i \in 1..Len(chat.request.uploads) :
          LET file == chat.request.uploads[i]
          IN  /\ file.filename # ""
              /\ \/ ~is_allowed_file(ChatbotBackend_init, file.filename)
                 \/ ~validate_file_size(ChatbotBackend_init, Bytes(file.size))

\* C15: an upload that is oversized or of an unsupported extension is reported
\* to the caller as an error before the gateway is invoked; the request is not
\* processed as if the attachment had not been sent.
C15_RefusedUploadReported ==
    (RefusedUpload /\ ~BlankMessage) =>
        /\ chat.response = NotCalled
        /\ chat.model_outcome = ModelNotCalled
        /\ Answered => (~chat.http.body.success /\ "error" \in DOMAIN chat.http.body)

\* the dict process_chat_request returns
StructuredResult(result) ==
    /\ { "success", "response" } \subseteq DOMAIN result
    /\ result.success \in BOOLEAN
    /\ Len(result.response) > 0

\* C16: process_chat_request never raises to its caller: once entered, it
\* leaves only by returning a result with a success flag and a response text,
\* whatever the files (a MIME type that is None or missing, data that is
\* missing), the context and the gateway do.
C16_NeverRaises ==
    [][ (chat.pc \in InsideProcess) =>
           /\ chat'.pc \in InsideProcess \cup { "respond" }
           /\ chat'.pc = "respond" => StructuredResult(chat'.result) ]_vars

\* a file whose MIME type is None makes the classifier raise; the caller gets a
\* result all the same
C16_Witness ==
    /\ chat.pc = "respond"
    /\ chat.exception = "argument of type 'NoneType' is not iterable"
    /\ \E i \in 1..Len(chat.files_data) : chat.files_data[i].mime_type = MimeNone
    /\ StructuredResult(chat.result)
    /\ ~chat.result.success

\* C20: an exception of the model call whose message tells of a timeout is
\* reported as the network/timeout kind, on the text path and on the
\* attachment path, whatever else the message holds.
C20_TimeoutIsNetworkKind ==
    (InRequest /\ chat.model_outcome.kind = "raises"
               /\ Contains("timeout", Lower(chat.model_outcome.error))) =>
        chat.response = IF chat.has_files THEN file_msg_network ELSE text_msg_network

\* an exception text that tells of a failed authentication, of an exhausted
\* quota or rate limit
IndicatesAuthentication(e) ==
    AnyKeywordIn(<< "api_key", "authentication", "unauthorized" >>, Lower(e))

IndicatesQuota(e) ==
    /\ ~IndicatesAuthentication(e)
    /\ AnyKeywordIn(<< "quota", "rate limit" >>, Lower(e))

\* C21: on the text path and on the attachment path an exception that tells
\* of an authentication failure is reported as the authentication kind and one
\* that tells of quota exhaustion as the quota kind, never as unsupported
\* format, network or unknown.
C21_AuthAndQuotaClassified ==
    (InRequest /\ chat.model_outcome.kind = "raises") =>
        LET e == chat.model_outcome.error
            other == { text_msg_network, text_msg_unexpected(e), file_msg_unsupported_format,
                       file_msg_network, file_msg_processing_error(e) }
        IN  /\ IndicatesAuthentication(e) =>
                   /\ ~chat.has_files => chat.response = text_msg_authentication
                   /\ chat.response \notin other
            /\ IndicatesQuota(e) =>
                   /\ ~chat.has_files => chat.response = text_msg_quota
                   /\ chat.response \notin other

----------------------------------------------------------------------------
(* Claims about the classifier and the template table *)

\* the closed set of labels
MessageTypeLabels ==
    { "image_analysis", "video_analysis", "pdf_analysis", "psychological_support",
      "disaster_information", "emergency_protocol", "text_only" }

\* C22: the classifier returns one label of the closed set of seven, every
\* label it returns is a key of the template table, and the template chosen
\* for it is the label's own: the text-only fallback for an unknown type is
\* never taken for a label of the classifier.
C22_ClosedLabelSet ==
    (message_type # NotCalled) =>
        /\ message_type \in MessageTypeLabels
        /\ Cardinality(MessageTypeLabels) = 7
        /\ message_type \in DOMAIN prompt_engine.specialized_prompts
        /\ select_template(prompt_engine, message_type)
               = prompt_engine.specialized_prompts[message_type]
        /\ message_type # "text_only" =>
               select_template(prompt_engine, message_type)
                   # prompt_engine.specialized_prompts["text_only"]

\* an emergency message: its label selects the emergency template
C22_Witness ==
    /\ message_type = "emergency_protocol"
    /\ ~has_files
    /\ select_template(prompt_engine, message_type) = template_emergency_protocol

----------------------------------------------------------------------------
(* Claims about attachments *)

\* what stands for the text of a PDF in the prompt: the extracted text or one
\* of the two fixed placeholders
PdfTexts == { "page one\npage two", pdf_msg_extraction_error, pdf_msg_not_available }

\* the step in which process_multimodal_request is called with a PDF by a
\* configured gateway
PdfInvoked ==
    /\ chat.pc = "gateway"
    /\ chat'.pc = "return"
    /\ chat.has_files /\ Len(chat.files_data) > 0
    /\ chat.files_data[1].mime_type = MimeStr("application/pdf")
    /\ is_available(chat.gemini_handler)

\* C23: for a PDF the model is sent one part, a text made of the prompt
\* followed by the text of the PDF, and no binary part; when the text cannot
\* be extracted or the library is missing a fixed placeholder stands in its
\* place, and the model is called all the same.
C23_PdfInlinedAsText ==
    [][ PdfInvoked =>
          /\ Len(chat'.content_parts) = 1
          /\ DOMAIN chat'.content_parts[1] = { "text" }
          /\ \E t \in PdfTexts :
                chat'.content_parts[1].text = chat.specialized_prompt \o "\n\nPDF CONTENT:\n" \o t
          /\ chat.files_data[1].data.type # "bytes" =>
                \E t \in { pdf_msg_extraction_error, pdf_msg_not_available } :
                   chat'.content_parts[1].text
                       = chat.specialized_prompt \o "\n\nPDF CONTENT:\n" \o t
          /\ chat'.model_outcome # ModelNotCalled ]_vars

\* an uploaded PDF whose text is not extracted: the placeholder is sent and the
\* model replies
C23_Witness ==
    /\ chat.pc = "return"
    /\ Len(chat.files_data) > 0
    /\ chat.files_data[1].mime_type = MimeStr("application/pdf")
    /\ chat.files_data[1].data.type = "bytes"
    /\ Len(chat.content_parts) = 1
    /\ chat.content_parts[1].text
           = chat.specialized_prompt \o "\n\nPDF CONTENT:\n" \o pdf_msg_extraction_error
    /\ chat.model_outcome.kind = "text"
    /\ chat.response = chat.model_outcome.text

\* no file of the request has a MIME type of the category image, video or pdf
\* (a type that is None or missing has no category)
NoRecognizedCategory(files) ==
    \A i \in 1..Len(files) :
        \A category \in { "image", "video", "pdf" } :
            ~(files[i].mime_type.json = "str" /\ Contains(category, files[i].mime_type.value))

\* C25: attachments of no recognized category have no influence on the
\* classification: the classifier does not fail on them and returns the label
\* of the same message without attachments.
C25_NoAttachmentInfluence ==
    (InRequest /\ NoRecognizedCategory(chat.files_data)) =>
        /\ chat.exception # "argument of type 'NoneType' is not iterable"
        /\ chat.message_type # NotCalled =>
               chat.message_type
                   = analyze_message_type(prompt_engine, chat.message.value, FALSE, << >>)

\* the MIME category a file-analysis label names
CategoryOf(label) ==
    CASE label = "image_analysis" -> "image"
      [] label = "video_analysis" -> "video"
      [] label = "pdf_analysis" -> "pdf"

\* C26: whenever the message type is image_analysis, video_analysis or
\* pdf_analysis, the first file, the one forwarded to
\* process_multimodal_request, has a MIME type of that category.
C26_TemplateMatchesAttachment ==
    ( /\ InRequest
      /\ chat.message_type \in { "image_analysis", "video_analysis", "pdf_analysis" } )
    =>  /\ Len(chat.files_data) > 0
        /\ chat.files_data[1].mime_type.json = "str"
        /\ Contains(CategoryOf(chat.message_type), chat.files_data[1].mime_type.value)

----------------------------------------------------------------------------
(* Claims about the confidence score and the detected type *)

\* the keywords of the detected type's lexicon a description holds; no lexicon
\* belongs to general_emergency
DetectedHits ==
    IF \E i \in 1..Len(TypeOrder) : TypeOrder[i] = assessment.disaster_type
    THEN DescriptionHits[description][CHOOSE i \in 1..Len(TypeOrder) :
                                          TypeOrder[i] = assessment.disaster_type]
    ELSE 0

\* C24: the confidence score (in hundredths) is min(0.95, 0.5 + w + k), w being
\* 0.2 above 20 words, 0.1 above 10 words and 0 otherwise, k being 0.1 for
\* each matched keyword of the detected type with at most 0.3; so 0.95 is
\* returned only for more than 20 words with at least 3 matched keywords.
C24_ConfidenceFormula ==
    Assessed =>
        LET words == DescriptionWords[description]
            w == IF words > 20 THEN 20 ELSE IF words > 10 THEN 10 ELSE 0
            k == IF DetectedHits >= 3 THEN 30 ELSE DetectedHits * 10
        IN  /\ assessment.confidence_score = (IF 50 + w + k > 95 THEN 95 ELSE 50 + w + k)
            /\ assessment.confidence_score = 95 => (words > 20 /\ DetectedHits >= 3)

\* five flood keywords in eight words: the keyword bonus stops at 0.3 and the
\* score is 0.8
C24_Witness ==
    /\ Assessed
    /\ DescriptionWords[description] <= 10
    /\ assessment.disaster_type = "flood"
    /\ DetectedHits = 5
    /\ assessment.confidence_score = 80

\* a list of actions holds a given action
HasAction(actions, action) == \E i \in 1..Len(actions) : actions[i] = action

\* C29: for a flood, whenever the guidance says that the water is extremely
\* dangerous and not to walk through it, the immediate actions hold 'Do NOT
\* enter or attempt to cross flood water', do not hold 'Test water depth and
\* movement carefully', and the severity is high or critical.
C29_GuidanceAgreesWithActions ==
    ( /\ Assessed
      /\ assessment.disaster_type = "flood"
      /\ Contains("EXTREMELY DANGEROUS", assessment.educational_guidance)
      /\ Contains("DO NOT attempt to walk through this water", assessment.educational_guidance) )
    =>  /\ HasAction(assessment.immediate_actions, "Do NOT enter or attempt to cross flood water")
        /\ ~HasAction(assessment.immediate_actions, "Test water depth and movement carefully")
        /\ assessment.severity_level \in { "high", "critical" }

\* C30: the detected type is one of the five; earthquake is returned only
\* with two earthquake keywords or more and fewer than two flood and fewer
\* than two fire keywords, never by the single-word fallback; structural is
\* returned through the two-hit rule only with fewer than two earthquake
\* keywords.
C30_TypeRange ==
    Assessed =>
        LET hits == DescriptionHits[description]
            type == assessment.disaster_type
        IN  /\ type \in { "flood", "fire", "earthquake", "structural", "general_emergency" }
            /\ type = "earthquake" => (hits[3] >= 2 /\ hits[1] < 2 /\ hits[2] < 2)
            /\ ReachedTypes(description) = {} => type # "earthquake"
            /\ (type = "structural" /\ ReachedTypes(description) # {}) =>
                   (hits[4] >= 2 /\ hits[3] < 2 /\ hits[1] < 2 /\ hits[2] < 2)

\* two earthquake keywords that are structural keywords too: earthquake, the
\* earlier type, is returned
C30_Witness ==
    /\ Assessed
    /\ DescriptionHits[description][3] >= 2
    /\ DescriptionHits[description][4] >= 2
    /\ assessment.disaster_type = "earthquake"

----------------------------------------------------------------------------
(* Claims about the conversation history *)

AllReturned == \A t \in Threads : threads[t].pc = "done"

\* the calls for a session that returned success
Succeeded(session_id) ==
    { t \in Threads : /\ threads[t].pc = "done"
                      /\ threads[t].session_id = session_id
                      /\ threads[t].result.success }

\* the entries of a session's history that the calls of the threads appended
AppendedEntries(session_id) ==
    LET history == get_conversation_history(api, session_id)
    IN  { i \in 1..Len(history) : history[i] # EarlierEntry }

\* C27: with concurrent calls of process_text_request and
\* process_image_request and no clear_conversation, once all calls have
\* returned the history of a session holds one entry for every call that
\* returned success, also when the session had no list before the calls.
C27_NoEntryLost ==
    AllReturned =>
        \A s \in Sessions :
            Cardinality(AppendedEntries(s)) = Cardinality(Succeeded(s))

\* C28: clear_conversation(s) returns true exactly when s had a stored
\* history; afterwards get_conversation_history(s) is empty, a second
\* clear_conversation(s) returns false and every other session's history is
\* as before; get_conversation_history changes no stored history.
C28_ClearAndGet ==
    /\ last_call.op = "clear" =>
          LET s == last_call.session_id
          IN  /\ last_call.cleared = (get_conversation_history(last_call.before, s) # << >>)
              /\ last_call.cleared = (s \in DOMAIN last_call.before.conversation_history)
              /\ get_conversation_history(api, s) = << >>
              /\ clear_conversation(api, s).returned = FALSE
              /\ \A other \in Sessions \ { s } :
                    /\ get_conversation_history(api, other)
                           = get_conversation_history(last_call.before, other)
                    /\ (other \in DOMAIN api.conversation_history)
                           <=> (other \in DOMAIN last_call.before.conversation_history)
    /\ last_call.op = "get" =>
          /\ api = last_call.before
          /\ last_call.history = get_conversation_history(last_call.before, last_call.session_id)
          /\ \A s \in Sessions :
                get_conversation_history(api, s) = get_conversation_history(last_call.before, s)

\* a session with two entries is cleared while the other session keeps its
\* entry
C28_Witness ==
    /\ last_call.op = "clear"
    /\ last_call.cleared
    /\ Len(get_conversation_history(last_call.before, last_call.session_id)) = 2
    /\ get_conversation_history(api, last_call.session_id) = << >>
    /\ \E other \in Sessions \ { last_call.session_id } :
          Len(get_conversation_history(api, other)) >= 1

====
